---- MODULE Spec2Model ----
(***************************************************************************)
(* Event-driven side effects of a task's lifecycle (backend services):     *)
(*   notification_service/reminder_state.py      ReminderStateManager      *)
(*   notification_service/main.py                reminder_handler, delivery*)
(*   notification_service/reminder_scheduler.py  reminder_check, scans     *)
(*   notification_service/task_lifecycle_handler.py  update/delete events  *)
(*   recurrence_engine/main.py                   RecurrenceEngine          *)
(*   websocket_service/main.py                   WebSocketManager          *)
(*                                                                         *)
(* The Dapr state store is the abstract key/value store of the design: a   *)
(* read returns the stored value or nothing, and any call may raise.  An   *)
(* operation is given the set F of its store calls that raise, a call      *)
(* being named <<point, site>>.                                            *)
(***************************************************************************)
EXTENDS Integers, Sequences, FiniteSets, TLC

VARIABLES
    now,              \* datetime.now(), in ticks
    reminders,        \* state store: reminder key -> stored reminder dict
    userIdx,          \* state store: "user_reminders:{user}" -> list of reminder ids
    taskIdx,          \* state store: "task_reminders:{user}:{task}" -> list of reminder ids
    sendCount,        \* reminder id -> number of send_notification calls made for it
    markedNotified,   \* reminder ids for which mark_reminder_as_notified has returned True
    cancelledFirst,   \* reminder ids whose cancel_reminder returned True before any send for them
    last,             \* the operation that ran last: its name, argument, faults and result
    ops,              \* operations run so far
    faultsUsed,       \* store and bus calls that have raised so far
    bus,              \* task-reminders topic: reminder events published so far
    checking_reminders, \* reminder_scheduler.checking_reminders
    scans,            \* check_upcoming_tasks tasks created and not yet run
    lifecycleTasks,   \* cancel_task_reminders tasks created by the lifecycle handlers, not yet run
    processed,        \* state store: processing ids with a "recurrence_processed:" marker
    started,          \* state store: processing ids with a "recurrence_started:" marker
    createdTasks,     \* completion event -> tasks created for it through create_task
    auditEvents,      \* completion event -> task_recurred events published for it
    pidsOf,           \* completion event -> processing ids derived for its deliveries
    completedWrites,  \* processing id -> save_state calls made on its "recurrence_processed:" key
    calc,             \* the last call of calculate_next_occurrence: its task_data and result
    active_connections,   \* WebSocketManager.active_connections: user -> set of websockets
    user_connection_map,  \* WebSocketManager.user_connection_map: websocket -> user
    calls             \* process -> its running call of store_reminder or delete_reminder

vars == <<now, reminders, userIdx, taskIdx, sendCount, markedNotified, cancelledFirst,
          last, ops, faultsUsed, bus, checking_reminders, scans, lifecycleTasks,
          processed, started, createdTasks, auditEvents, pidsOf, completedWrites, calc,
          active_connections, user_connection_map, calls>>

reminderVars == <<reminders, userIdx, taskIdx, sendCount, markedNotified, cancelledFirst>>
schedulerVars == <<bus, checking_reminders, scans>>
recurrenceVars == <<processed, started, createdTasks, auditEvents, pidsOf, completedWrites, calc>>
fanoutVars == <<active_connections, user_connection_map>>

(***************************************************************************)
(* Bounds of the model.                                                    *)
(***************************************************************************)
MaxClock == 2          \* the clock runs from tick 0 to MaxClock
TicksPerSecond == 2    \* ticks (microsecond readings) per wall-clock second
MaxOps == 3            \* operations in one behaviour
MaxFaults == 1         \* store and bus calls that raise in one behaviour

Users == {"u1"}
Tasks == {1, 2}
Clock == 0..MaxClock

\* The due date of a task record of the Task Service.
DueOf(t) == 10 + t

(***************************************************************************)
(* Reminder identities and stored reminders.                               *)
(***************************************************************************)
\* strftime('%Y%m%d%H%M%S'): the clock reading truncated to the second.
StrftimeSeconds(clock) == clock \div TicksPerSecond

\* f"reminder_{user_id}_{task_id}_{datetime.now().strftime('%Y%m%d%H%M%S')}"
ReminderId(user_id, task_id, clock) == <<"reminder", user_id, task_id, StrftimeSeconds(clock)>>

RIds == {ReminderId(u, t, c) : u \in Users, t \in Tasks, c \in Clock}

\* A store key that is a dict field name rather than a reminder id.
FieldKey(name) == <<name>>

\* The order in which reminder_handler builds the dict (json keeps it); the
\* payload fields task_title, event_type, timestamp and created_at, which no
\* operation reads, are left out of the stored dict.
KeyOrder == <<"id", "user_id", "task_id", "due_date", "notified", "cancelled", "updated_at">>

\* list(reminder.keys())[0]
FirstKey(reminder) ==
    LET idx == {i \in 1..Len(KeyOrder) : KeyOrder[i] \in DOMAIN reminder}
    IN KeyOrder[CHOOSE i \in idx : \A j \in idx : i <= j]

\* reminder.get('notified', False), reminder.get('cancelled', False)
Notified(reminder) == IF "notified" \in DOMAIN reminder THEN reminder.notified ELSE FALSE
Cancelled(reminder) == IF "cancelled" \in DOMAIN reminder THEN reminder.cancelled ELSE FALSE

\* dict.update
DictUpdate(d, updates) ==
    [k \in DOMAIN d \cup DOMAIN updates |-> IF k \in DOMAIN updates THEN updates[k] ELSE d[k]]

Put(f, k, v) == [x \in DOMAIN f \cup {k} |-> IF x = k THEN v ELSE f[x]]
Remove(f, k) == [x \in DOMAIN f \ {k} |-> f[x]]

InSeq(s, x) == \E i \in 1..Len(s) : s[i] = x
\* list.remove(x) of a list that holds x: drops its first occurrence
SeqRemove(s, x) ==
    LET i == CHOOSE j \in 1..Len(s) : s[j] = x /\ \A k \in 1..(j - 1) : s[k] # x
    IN SubSeq(s, 1, i - 1) \o SubSeq(s, i + 1, Len(s))

(***************************************************************************)
(* ReminderStateManager.  db is the part of the state store the manager    *)
(* uses: [r |-> reminders, ui |-> user index, ti |-> task index].          *)
(***************************************************************************)
Db == [r |-> reminders, ui |-> userIdx, ti |-> taskIdx]

Fails(F, point, site) == <<point, site>> \in F

\* get_reminder: the stored dict, or nothing when absent or when the read raises
GetReminder(db, reminder_id, F, site) ==
    IF Fails(F, "get", site) THEN {}
    ELSE IF reminder_id \in DOMAIN db.r THEN {db.r[reminder_id]} ELSE {}

\* _add_to_user_task_index: user index first, then task index; the first call
\* that raises ends it
AddToUserTaskIndex(db, user_id, task_id, reminder_id, F, site) ==
    IF Fails(F, "uget", site) THEN db
    ELSE LET ul == db.ui[user_id]
             addU == ~InSeq(ul, reminder_id)
         IN IF addU /\ Fails(F, "usave", site) THEN db
            ELSE LET db1 == IF addU
                            THEN [db EXCEPT !.ui[user_id] = Append(ul, reminder_id)]
                            ELSE db
                 IN IF Fails(F, "tget", site) THEN db1
                    ELSE LET tl == db1.ti[<<user_id, task_id>>]
                             addT == ~InSeq(tl, reminder_id)
                         IN IF addT /\ ~Fails(F, "tsave", site)
                            THEN [db1 EXCEPT !.ti[<<user_id, task_id>>] = Append(tl, reminder_id)]
                            ELSE db1

\* _remove_from_user_task_index
RemoveFromUserTaskIndex(db, user_id, task_id, reminder_id, F, site) ==
    IF Fails(F, "uget", site) THEN db
    ELSE LET ul == db.ui[user_id]
             delU == InSeq(ul, reminder_id)
         IN IF delU /\ Fails(F, "usave", site) THEN db
            ELSE LET db1 == IF delU
                            THEN [db EXCEPT !.ui[user_id] = SeqRemove(ul, reminder_id)]
                            ELSE db
                 IN IF Fails(F, "tget", site) THEN db1
                    ELSE LET tl == db1.ti[<<user_id, task_id>>]
                             delT == InSeq(tl, reminder_id)
                         IN IF delT /\ ~Fails(F, "tsave", site)
                            THEN [db1 EXCEPT !.ti[<<user_id, task_id>>] = SeqRemove(tl, reminder_id)]
                            ELSE db1

\* store_reminder made all-or-nothing: any call of it that raises leaves the
\* store as it was and the result is False.
StoreReminderAllOrNothing(db, reminder_id, reminder_data, F, site) ==
    IF \E f \in F : f[2] = site THEN [db |-> db, ok |-> FALSE]
    ELSE LET data == DictUpdate(reminder_data, [updated_at |-> now])
             db1 == [db EXCEPT !.r = Put(@, reminder_id, data)]
         IN [db |-> AddToUserTaskIndex(db1, data.user_id, data.task_id, reminder_id, F, site),
             ok |-> TRUE]

\* store_reminder: stamps updated_at, writes the entity under reminder_id
\* (replacing what is stored there), then updates the indexes
StoreReminder(db, reminder_id, reminder_data, F, site) ==
    IF Fails(F, "save", site) THEN [db |-> db, ok |-> FALSE]
    ELSE LET data == DictUpdate(reminder_data, [updated_at |-> now])
             db1 == [db EXCEPT !.r = Put(@, reminder_id, data)]
         IN [db |-> AddToUserTaskIndex(db1, data.user_id, data.task_id, reminder_id, F, site),
             ok |-> TRUE]

\* update_reminder made an upsert: a reminder that is not there is created
\* from the given fields.
UpdateReminderUpsert(db, reminder_id, updates, F, site) ==
    LET cur == GetReminder(db, reminder_id, F, site)
    IN IF Fails(F, "save", site) THEN [db |-> db, ok |-> FALSE]
       ELSE LET c == IF cur = {} THEN [user_id |-> reminder_id[2], task_id |-> reminder_id[3]]
                     ELSE CHOOSE x \in cur : TRUE
                data == DictUpdate(DictUpdate(c, updates), [updated_at |-> now])
            IN [db |-> [db EXCEPT !.r = Put(@, reminder_id, data)], ok |-> TRUE]

\* update_reminder: read, dict.update, stamp updated_at, write back
UpdateReminder(db, reminder_id, updates, F, site) ==
    LET cur == GetReminder(db, reminder_id, F, site)
    IN IF cur = {} \/ Fails(F, "save", site) THEN [db |-> db, ok |-> FALSE]
       ELSE LET c == CHOOSE x \in cur : TRUE
                data == DictUpdate(DictUpdate(c, updates), [updated_at |-> now])
            IN [db |-> [db EXCEPT !.r = Put(@, reminder_id, data)], ok |-> TRUE]

\* delete_reminder
DeleteReminder(db, reminder_id, F, site) ==
    LET cur == GetReminder(db, reminder_id, F, site)
        db1 == IF cur = {} THEN db
               ELSE LET c == CHOOSE x \in cur : TRUE
                    IN RemoveFromUserTaskIndex(db, c.user_id, c.task_id, reminder_id, F, site)
    IN IF Fails(F, "del", site) THEN [db |-> db1, ok |-> FALSE]
       ELSE [db |-> [db1 EXCEPT !.r = Remove(@, reminder_id)], ok |-> TRUE]

MarkReminderAsNotified(db, reminder_id, F, site) ==
    UpdateReminder(db, reminder_id, [notified |-> TRUE], F, site)

\* is_reminder_notified answering True for a reminder it cannot read.
IsReminderNotifiedOrUnknown(db, reminder_id, F, site) ==
    LET cur == GetReminder(db, reminder_id, F, site)
    IN IF cur = {} THEN TRUE ELSE Notified(CHOOSE x \in cur : TRUE)

IsReminderNotified(db, reminder_id, F, site) ==
    LET cur == GetReminder(db, reminder_id, F, site)
    IN IF cur = {} THEN FALSE ELSE Notified(CHOOSE x \in cur : TRUE)

CancelReminder(db, reminder_id, F, site) ==
    UpdateReminder(db, reminder_id, [cancelled |-> TRUE], F, site)

IsReminderCancelled(db, reminder_id, F, site) ==
    LET cur == GetReminder(db, reminder_id, F, site)
    IN IF cur = {} THEN FALSE ELSE Cancelled(CHOOSE x \in cur : TRUE)

\* The reads of the listed entities are sites 1, 2, ... in list order.
RECURSIVE ResolveIds(_, _, _, _)
ResolveIds(db, ids, F, i) ==
    IF i > Len(ids) THEN <<>>
    ELSE LET got == GetReminder(db, ids[i], F, i)
         IN (IF got = {} THEN <<>> ELSE <<CHOOSE x \in got : TRUE>>)
            \o ResolveIds(db, ids, F, i + 1)

\* get_user_reminders / get_task_reminders: the index read is site 0
GetUserReminders(db, user_id, F) ==
    IF Fails(F, "iget", 0) THEN <<>> ELSE ResolveIds(db, db.ui[user_id], F, 1)

GetTaskReminders(db, user_id, task_id, F) ==
    IF Fails(F, "iget", 0) THEN <<>> ELSE ResolveIds(db, db.ti[<<user_id, task_id>>], F, 1)

\* The key cancel_task_reminders hands to cancel_reminder for one listed dict:
\* reminder['id'] if 'id' in reminder else
\*     (reminder.get('id', '') or list(reminder.keys())[0])
CancelKeyOf(reminder) ==
    IF "id" \in DOMAIN reminder THEN reminder.id ELSE FieldKey(FirstKey(reminder))

\* The loop of cancel_task_reminders; the cancel of the i-th dict is site 10 + i.
RECURSIVE CancelEach(_, _, _, _, _)
CancelEach(db, rems, F, i, count) ==
    IF i > Len(rems) THEN [db |-> db, count |-> count, hit |-> {}]
    ELSE LET c == CancelReminder(db, CancelKeyOf(rems[i]), F, 10 + i)
             rest == CancelEach(c.db, rems, F, i + 1, IF c.ok THEN count + 1 ELSE count)
         IN [rest EXCEPT !.hit = @ \cup (IF c.ok THEN {CancelKeyOf(rems[i])} ELSE {})]

\* cancel_task_reminders: True whatever the count
CancelTaskReminders(db, user_id, task_id, F) ==
    LET rems == GetTaskReminders(db, user_id, task_id, F)
        res == CancelEach(db, rems, F, 1, 0)
    IN [db |-> res.db, ok |-> TRUE, count |-> res.count, hit |-> res.hit, listed |-> Len(rems)]

(***************************************************************************)
(* Faults: the calls of one operation that raise, MaxFaults in all.        *)
(***************************************************************************)
FaultSets(points) == {F \in SUBSET points : Cardinality(F) <= MaxFaults - faultsUsed}

EntityPoints(site) == {<<"get", site>>, <<"save", site>>}
IndexPoints(site) == {<<"uget", site>>, <<"usave", site>>, <<"tget", site>>, <<"tsave", site>>}
StorePoints(site) == {<<"save", site>>} \cup IndexPoints(site)
DeletePoints(site) == {<<"get", site>>, <<"del", site>>} \cup IndexPoints(site)

\* The dict reminder_handler stores for an event.
ReminderData(user_id, task_id, due_date) ==
    [user_id |-> user_id, task_id |-> task_id, due_date |-> due_date, notified |-> FALSE]

\* Reminder events: the ones check_upcoming_tasks publishes, and one that
\* lacks its user_id.
ReminderEvent(user_id, task_id, timestamp) ==
    [user_id |-> user_id, task_id |-> task_id, due_date |-> DueOf(task_id),
     timestamp |-> timestamp]
ReminderEvents ==
    {ReminderEvent(u, t, 0) : u \in Users, t \in Tasks}
    \cup {ReminderEvent("", CHOOSE t \in Tasks : TRUE, 0)}

SetDb(db) ==
    /\ reminders' = db.r
    /\ userIdx' = db.ui
    /\ taskIdx' = db.ti

Ran(op, arg, F, ok) ==
    /\ last' = [op |-> op, arg |-> arg, faults |-> F, ok |-> ok]
    /\ ops' = ops + 1
    /\ faultsUsed' = faultsUsed + Cardinality(F)

CanRun == ops < MaxOps

(***************************************************************************)
(* Operations of the Reminder Lifecycle Manager (the module-level          *)
(* convenience functions of reminder_state.py).                            *)
(***************************************************************************)
Tick ==
    /\ now < MaxClock
    /\ now' = now + 1
    /\ UNCHANGED <<reminderVars, last, ops, faultsUsed, schedulerVars, lifecycleTasks, recurrenceVars, fanoutVars, calls>>

StoreReminderOp(user_id, task_id, second, F) ==
    LET rid == <<"reminder", user_id, task_id, second>>
        res == StoreReminder(Db, rid, ReminderData(user_id, task_id, DueOf(task_id)), F, 0)
    IN /\ CanRun
       /\ SetDb(res.db)
       /\ Ran("store_reminder", rid, F, res.ok)
       /\ UNCHANGED <<now, sendCount, markedNotified, cancelledFirst,
                      schedulerVars, lifecycleTasks, recurrenceVars, fanoutVars, calls>>

MarkNotifiedOp(rid, F) ==
    LET res == MarkReminderAsNotified(Db, rid, F, 0)
    IN /\ CanRun
       /\ SetDb(res.db)
       /\ markedNotified' = IF res.ok THEN markedNotified \cup {rid} ELSE markedNotified
       /\ Ran("mark_reminder_as_notified", rid, F, res.ok)
       /\ UNCHANGED <<now, sendCount, cancelledFirst, schedulerVars, lifecycleTasks, recurrenceVars, fanoutVars, calls>>

\* The reminder ids among the keys a successful cancel_reminder was run on
\* that had no send yet.
NewlyCancelledFirst(keys) == {k \in keys \cap RIds : sendCount[k] = 0}

CancelReminderOp(rid, F) ==
    LET res == CancelReminder(Db, rid, F, 0)
    IN /\ CanRun
       /\ SetDb(res.db)
       /\ cancelledFirst' = IF res.ok THEN cancelledFirst \cup NewlyCancelledFirst({rid})
                            ELSE cancelledFirst
       /\ Ran("cancel_reminder", rid, F, res.ok)
       /\ UNCHANGED <<now, sendCount, markedNotified, schedulerVars, lifecycleTasks, recurrenceVars, fanoutVars, calls>>

DeleteReminderOp(rid, F) ==
    LET res == DeleteReminder(Db, rid, F, 0)
    IN /\ CanRun
       /\ SetDb(res.db)
       /\ markedNotified' = IF res.ok THEN markedNotified \ {rid} ELSE markedNotified
       /\ cancelledFirst' = IF res.ok THEN cancelledFirst \ {rid} ELSE cancelledFirst
       /\ Ran("delete_reminder", rid, F, res.ok)
       /\ UNCHANGED <<now, sendCount, schedulerVars, lifecycleTasks, recurrenceVars, fanoutVars, calls>>

CancelTaskRemindersOp(user_id, task_id, F) ==
    LET res == CancelTaskReminders(Db, user_id, task_id, F)
    IN /\ CanRun
       /\ SetDb(res.db)
       /\ cancelledFirst' = cancelledFirst \cup NewlyCancelledFirst(res.hit)
       /\ Ran("cancel_task_reminders", <<user_id, task_id>>, F, res.ok)
       /\ UNCHANGED <<now, sendCount, markedNotified, schedulerVars, lifecycleTasks, recurrenceVars, fanoutVars, calls>>

(***************************************************************************)
(* update_reminder with fields of the caller's choice, and the read-only   *)
(* operations of the manager; last.ok is what the operation returned.      *)
(***************************************************************************)
PartialFields == {[due_date |-> 0], [notified |-> TRUE, cancelled |-> FALSE]}

UpdateReminderOp(rid, updates, F) ==
    LET res == UpdateReminder(Db, rid, updates, F, 0)
    IN /\ SetDb(res.db)
       /\ Ran("update_reminder", <<rid, updates>>, F, res.ok)
       /\ UNCHANGED <<now, sendCount, markedNotified, cancelledFirst,
                      schedulerVars, lifecycleTasks, recurrenceVars, fanoutVars, calls>>

IsNotifiedOp(rid, F) ==
    /\ Ran("is_reminder_notified", rid, F, IsReminderNotified(Db, rid, F, 0))
    /\ UNCHANGED <<now, reminderVars, schedulerVars, lifecycleTasks, recurrenceVars, fanoutVars, calls>>

IsCancelledOp(rid, F) ==
    /\ Ran("is_reminder_cancelled", rid, F, IsReminderCancelled(Db, rid, F, 0))
    /\ UNCHANGED <<now, reminderVars, schedulerVars, lifecycleTasks, recurrenceVars, fanoutVars, calls>>

\* The calls of a listing that may raise: the index read and the entity reads.
ListPoints == {<<"iget", 0>>, <<"get", 1>>, <<"get", 2>>}

GetUserRemindersOp(user_id, F) ==
    /\ Ran("get_user_reminders", user_id, F, GetUserReminders(Db, user_id, F))
    /\ UNCHANGED <<now, reminderVars, schedulerVars, lifecycleTasks, recurrenceVars, fanoutVars, calls>>

GetTaskRemindersOp(user_id, task_id, F) ==
    /\ Ran("get_task_reminders", <<user_id, task_id>>, F, GetTaskReminders(Db, user_id, task_id, F))
    /\ UNCHANGED <<now, reminderVars, schedulerVars, lifecycleTasks, recurrenceVars, fanoutVars, calls>>

(***************************************************************************)
(* notification_service/main.py: reminder_handler.  store_reminder is      *)
(* site 1, is_reminder_notified site 2, mark_reminder_as_notified site 3.  *)
(***************************************************************************)
HandlerPoints == StorePoints(1) \cup {<<"get", 2>>} \cup EntityPoints(3)

ReminderHandler(event_data, F) ==
    /\ CanRun
    /\ IF event_data.user_id = ""
       THEN \* a required field is missing: logged, nothing done
            /\ Ran("reminder_handler", <<"missing">>, F, FALSE)
            /\ UNCHANGED reminderVars
       ELSE LET rid == ReminderId(event_data.user_id, event_data.task_id, now)
                data == ReminderData(event_data.user_id, event_data.task_id, event_data.due_date)
                stored == StoreReminder(Db, rid, data, F, 1)
                is_notified == IsReminderNotified(stored.db, rid, F, 2)
                marked == MarkReminderAsNotified(stored.db, rid, F, 3)
            IN IF is_notified
               THEN \* already processed, skipping notification
                    /\ SetDb(stored.db)
                    /\ Ran("reminder_handler", rid, F, FALSE)
                    /\ UNCHANGED <<sendCount, markedNotified, cancelledFirst>>
               ELSE \* send_notification, then mark_reminder_as_notified
                    /\ sendCount' = [sendCount EXCEPT ![rid] = @ + 1]
                    /\ SetDb(marked.db)
                    /\ markedNotified' = IF marked.ok THEN markedNotified \cup {rid}
                                         ELSE markedNotified
                    /\ Ran("reminder_handler", rid, F, TRUE)
                    /\ UNCHANGED cancelledFirst
    /\ UNCHANGED <<now, schedulerVars, lifecycleTasks, recurrenceVars, fanoutVars, calls>>

(***************************************************************************)
(* notification_service/task_lifecycle_handler.py.  The module imports     *)
(* cancel_task_reminders from reminder_state and then defines a function   *)
(* of the same name; the handlers call the name, bound to that later       *)
(* definition when they run.                                               *)
(***************************************************************************)
\* task_lifecycle_handler.cancel_task_reminders: logs, touches no state
LifecycleCancelTaskReminders(db, user_id, task_id) == [db |-> db, ok |-> TRUE]

\* Task-updated events: the due date kept, the due date changed, and one
\* that lacks its user_id.
UpdateEvent(user_id, task_id, new_due_date) ==
    [user_id |-> user_id, task_id |-> task_id,
     old_due_date |-> DueOf(task_id), new_due_date |-> new_due_date]
UpdateEvents ==
    {UpdateEvent(u, t, DueOf(t) + moved) : u \in Users, t \in Tasks, moved \in {0, 1}}
    \cup {UpdateEvent("", CHOOSE t \in Tasks : TRUE, 0)}
DeleteEvents ==
    [user_id : Users, task_id : Tasks] \cup {[user_id |-> "", task_id |-> CHOOSE t \in Tasks : TRUE]}

TaskUpdateHandler(event_data) ==
    /\ CanRun
    /\ lifecycleTasks' =
          IF event_data.user_id # "" /\ event_data.old_due_date # event_data.new_due_date
          THEN Append(lifecycleTasks, <<event_data.user_id, event_data.task_id>>)
          ELSE lifecycleTasks
    /\ Ran("task_update_handler", <<event_data.user_id, event_data.task_id>>, {},
           event_data.user_id # "" /\ event_data.old_due_date # event_data.new_due_date)
    /\ UNCHANGED <<now, reminderVars, schedulerVars, recurrenceVars, fanoutVars, calls>>

TaskDeleteHandler(event_data) ==
    /\ CanRun
    /\ lifecycleTasks' =
          IF event_data.user_id # ""
          THEN Append(lifecycleTasks, <<event_data.user_id, event_data.task_id>>)
          ELSE lifecycleTasks
    /\ Ran("task_delete_handler", <<event_data.user_id, event_data.task_id>>, {},
           event_data.user_id # "")
    /\ UNCHANGED <<now, reminderVars, schedulerVars, recurrenceVars, fanoutVars, calls>>

\* The event loop runs the oldest task the handlers created.
RunLifecycleTask ==
    /\ lifecycleTasks # <<>>
    /\ LET arg == Head(lifecycleTasks)
           res == LifecycleCancelTaskReminders(Db, arg[1], arg[2])
       IN /\ SetDb(res.db)
          /\ last' = [op |-> "lifecycle_cancel_task_reminders", arg |-> arg,
                      faults |-> {}, ok |-> res.ok]
    /\ lifecycleTasks' = Tail(lifecycleTasks)
    /\ UNCHANGED <<now, ops, faultsUsed, sendCount, markedNotified, cancelledFirst,
                   schedulerVars, recurrenceVars, fanoutVars, calls>>

(***************************************************************************)
(* notification_service/reminder_scheduler.py.  scans is the queue of      *)
(* check_upcoming_tasks tasks handed to the event loop, each named by what *)
(* created it.                                                             *)
(***************************************************************************)
\* reminder_check: a synchronous function; the flag it sets is cleared by its
\* own finally clause before it returns
ReminderCheck ==
    /\ CanRun
    /\ IF checking_reminders
       THEN /\ UNCHANGED <<scans, checking_reminders, calls>>
            /\ Ran("reminder_check", <<"skipped">>, {}, FALSE)
       ELSE /\ scans' = Append(scans, "cron")
            /\ checking_reminders' = FALSE
            /\ Ran("reminder_check", <<"created">>, {}, TRUE)
    /\ UNCHANGED <<now, reminderVars, bus, lifecycleTasks, recurrenceVars, fanoutVars, calls>>

ManualTrigger ==
    /\ CanRun
    /\ scans' = Append(scans, "manual")
    /\ Ran("manual_trigger", <<"created">>, {}, TRUE)
    /\ UNCHANGED <<now, reminderVars, bus, checking_reminders, lifecycleTasks, recurrenceVars, fanoutVars, calls>>

\* check_upcoming_tasks: one reminder event per task the Task Service reports
\* due; invoke_method or publish_event raising ends the scan.  due_tasks is
\* the reported list, F names the calls that raise: <<"invoke", 0>> and
\* <<"publish", i>> for the i-th task.
RECURSIVE PublishedBy(_, _, _)
PublishedBy(due_tasks, F, i) ==
    IF i > Len(due_tasks) \/ Fails(F, "publish", i) THEN {}
    ELSE {ReminderEvent(due_tasks[i][1], due_tasks[i][2], now)}
         \cup PublishedBy(due_tasks, F, i + 1)

CheckUpcomingTasks(due_tasks, F) ==
    IF Fails(F, "invoke", 0) THEN {} ELSE PublishedBy(due_tasks, F, 1)

\* What get_due_tasks can report: the tasks, in id order, or only the first, or none.
TaskRecords == [t \in Tasks |-> <<CHOOSE u \in Users : TRUE, t>>]
DueLists == {SubSeq(TaskRecords, 1, n) : n \in 0..Cardinality(Tasks)}
ScanPoints == {<<"invoke", 0>>} \cup {<<"publish", i>> : i \in 1..Cardinality(Tasks)}

RunScan(due_tasks, F) ==
    /\ scans # <<>>
    /\ scans' = Tail(scans)
    /\ bus' = bus \cup CheckUpcomingTasks(due_tasks, F)
    /\ last' = [op |-> "check_upcoming_tasks", arg |-> <<Head(scans)>>, faults |-> F,
                ok |-> ~Fails(F, "invoke", 0)]
    /\ faultsUsed' = faultsUsed + Cardinality(F)
    /\ UNCHANGED <<now, ops, reminderVars, checking_reminders, lifecycleTasks, recurrenceVars, fanoutVars, calls>>

\* The bus delivers a published reminder event (any number of times).
DeliverReminder(F) == \E ev \in bus : ReminderHandler(ev, F)

(***************************************************************************)
(* recurrence_engine/main.py.  A datetime is [y, m, d, time]; an optional  *)
(* field (None or a value) is the empty set or a singleton.                *)
(***************************************************************************)
IsLeap(year) == year % 4 = 0 /\ (year % 100 # 0 \/ year % 400 = 0)

\* The list of add_months with a leap year every fourth year.
DaysInMonthJulian(year, month) ==
    <<31, IF year % 4 = 0 THEN 29 ELSE 28, 31, 30, 31, 30, 31, 31, 30, 31, 30, 31>>[month]

\* The list add_months indexes with month - 1.
DaysInMonth(year, month) ==
    <<31, IF IsLeap(year) THEN 29 ELSE 28, 31, 30, 31, 30, 31, 31, 30, 31, 30, 31>>[month]

Min(a, b) == IF a <= b THEN a ELSE b

\* add_months without the clamp of the day to the length of the month.
add_months_unclamped(dt, months) ==
    LET month0 == dt.m - 1 + months
    IN [dt EXCEPT !.y = dt.y + (month0 \div 12), !.m = (month0 % 12) + 1]

\* RecurrenceEngine.add_months
add_months(dt, months) ==
    LET month0 == dt.m - 1 + months
        year == dt.y + (month0 \div 12)
        month == (month0 % 12) + 1
        day == Min(dt.d, DaysInMonth(year, month))
    IN [dt EXCEPT !.y = year, !.m = month, !.d = day]

\* What add_months hands back: dt.replace raises ValueError for a year
\* after 9999 (datetime.MAXYEAR), and then there is no value.
add_months_or_raise(dt, months) ==
    IF add_months(dt, months).y > 9999 THEN {} ELSE {add_months(dt, months)}

\* dt + timedelta(days=n)
RECURSIVE AddDays(_, _)
AddDays(dt, n) ==
    IF n = 0 THEN dt
    ELSE IF dt.d < DaysInMonth(dt.y, dt.m) THEN AddDays([dt EXCEPT !.d = @ + 1], n - 1)
    ELSE IF dt.m < 12 THEN AddDays([dt EXCEPT !.m = @ + 1, !.d = 1], n - 1)
    ELSE AddDays([dt EXCEPT !.y = @ + 1, !.m = 1, !.d = 1], n - 1)

\* The valid patterns with "hourly" accepted as well.
RecurrencePatternWithHourly == {"daily", "weekly", "monthly", "yearly", "hourly"}

RecurrencePattern == {"daily", "weekly", "monthly", "yearly"}

\* str.lower() on the pattern values of the model
Lower(pattern) == IF pattern = "Daily" THEN "daily" ELSE pattern

\* calculate_next_occurrence: the next datetime, or nothing
CalculateNextOccurrence(task_data) ==
    LET pattern == Lower(task_data.recurrence_pattern)
        completed == task_data.completed_at
    IN IF pattern = "daily" THEN {AddDays(completed, 1)}
       ELSE IF pattern = "weekly" THEN {AddDays(completed, 7)}
       ELSE IF pattern = "monthly" THEN add_months_or_raise(completed, 1)
       ELSE IF pattern = "yearly" THEN add_months_or_raise(completed, 12)
       ELSE {}

\* should_stop_recurrence with strict comparisons: an end date not yet passed
\* and a counter at zero do not stop.
ShouldStopStrict(task_data) ==
    \/ \E end_date \in task_data.recurrence_end_date : now > end_date
    \/ \E recurrence_count \in task_data.recurrence_count : recurrence_count < 0

\* should_stop_recurrence
ShouldStopRecurrence(task_data) ==
    \/ \E end_date \in task_data.recurrence_end_date : now >= end_date
    \/ \E recurrence_count \in task_data.recurrence_count : recurrence_count <= 0

\* original_task.get('priority', 'medium') and original_task.get('tags', [])
PriorityOrDefault(original_task) ==
    IF original_task.priority = {} THEN {"medium"} ELSE original_task.priority
TagsOrDefault(original_task) ==
    IF original_task.tags = {} THEN {<<>>} ELSE original_task.tags

\* create_recurring_task without the decrement of the counter.
NewTaskKeepCount(original_task, next_occurrence) ==
    [user_id |-> original_task.user_id,
     title |-> original_task.title,
     description |-> original_task.description,
     due_date |-> next_occurrence,
     priority |-> PriorityOrDefault(original_task),
     tags |-> TagsOrDefault(original_task),
     recurrence_pattern |-> original_task.recurrence_pattern,
     recurrence_end_date |-> original_task.recurrence_end_date,
     recurrence_count |-> original_task.recurrence_count]

\* create_recurring_task sending 'medium' and no tags whatever the original
\* task carries.
NewTaskWithDefaults(original_task, next_occurrence) ==
    [user_id |-> original_task.user_id,
     title |-> original_task.title,
     description |-> original_task.description,
     due_date |-> next_occurrence,
     priority |-> {"medium"},
     tags |-> {<<>>},
     recurrence_pattern |-> original_task.recurrence_pattern,
     recurrence_end_date |-> original_task.recurrence_end_date,
     recurrence_count |-> {c - 1 : c \in original_task.recurrence_count}]

\* The task create_recurring_task sends to create_task.
NewTask(original_task, next_occurrence) ==
    [user_id |-> original_task.user_id,
     title |-> original_task.title,
     description |-> original_task.description,
     due_date |-> next_occurrence,
     priority |-> PriorityOrDefault(original_task),
     tags |-> TagsOrDefault(original_task),
     recurrence_pattern |-> original_task.recurrence_pattern,
     recurrence_end_date |-> original_task.recurrence_end_date,
     recurrence_count |-> {c - 1 : c \in original_task.recurrence_count}]

\* f"recurrence_{user_id}_{task_id}_{datetime.now().strftime('%Y%m%d%H%M%S%f')}"
ProcessingId(user_id, task_id, clock) == <<"recurrence", user_id, task_id, clock>>

\* has_processed_recurrence: a read that raises reports False
HasProcessedRecurrence(markers, processing_id, F) ==
    IF Fails(F, "get", 0) THEN FALSE ELSE processing_id \in markers.processed

\* mark_recurrence_processing_started without its save_state.
MarkStartedNever(markers, processing_id, F) == markers

\* mark_recurrence_processing_started
MarkRecurrenceProcessingStarted(markers, processing_id, F) ==
    IF Fails(F, "save", 1) THEN markers
    ELSE [markers EXCEPT !.started = @ \cup {processing_id}]

\* mark_recurrence_processing_completed deleting the started marker without
\* writing the completed one.
MarkCompletedDeletesOnly(markers, processing_id, F) ==
    IF Fails(F, "save", 2) \/ Fails(F, "del", 2) THEN markers
    ELSE [markers EXCEPT !.started = @ \ {processing_id}]

\* mark_recurrence_processing_completed: writes the completed marker, then
\* deletes the started marker
MarkRecurrenceProcessingCompleted(markers, processing_id, F) ==
    IF Fails(F, "save", 2) THEN markers
    ELSE IF Fails(F, "del", 2) THEN [markers EXCEPT !.processed = @ \cup {processing_id}]
    ELSE [markers EXCEPT !.processed = @ \cup {processing_id},
                         !.started = @ \ {processing_id}]

\* The calls of process_completed_task that can go wrong: the store calls,
\* create_task raising (<<"invoke", 3>>) or answering with a body that holds
\* no 'id' (<<"noid", 3>>), and the publish.
RecurrencePoints ==
    {<<"get", 0>>, <<"save", 1>>, <<"save", 2>>, <<"del", 2>>, <<"invoke", 3>>, <<"noid", 3>>,
     <<"publish", 4>>}

\* process_completed_task without its outer try/except: the KeyError of
\* new_task_data['id'] leaves the function.
ProcessCompletedTaskUnguarded(markers, task_data, F) ==
    LET processing_id == ProcessingId(task_data.user_id, task_data.id, now)
        m1 == MarkRecurrenceProcessingStarted(markers, processing_id, F)
        done == MarkRecurrenceProcessingCompleted(m1, processing_id, F)
        next_occurrence == CalculateNextOccurrence(task_data)
        Out(m, ok, created, published, why) ==
            [markers |-> m, ok |-> ok, created |-> created, published |-> published,
             pid |-> processing_id, why |-> why,
             marked |-> why \notin {"already completed", "exception", "escaped"}]
    IN IF HasProcessedRecurrence(markers, processing_id, F)
       THEN Out(markers, TRUE, {}, FALSE, "already completed")
       ELSE IF task_data.recurrence_pattern = ""
       THEN Out(done, TRUE, {}, FALSE, "no pattern")
       ELSE IF Lower(task_data.recurrence_pattern) \notin RecurrencePattern
       THEN Out(done, FALSE, {}, FALSE, "invalid pattern")
       ELSE IF ShouldStopRecurrence(task_data)
       THEN Out(done, TRUE, {}, FALSE, "recurrence ended")
       ELSE IF next_occurrence = {}
       THEN Out(done, FALSE, {}, FALSE, "no next occurrence")
       ELSE IF Fails(F, "invoke", 3)
       THEN Out(done, FALSE, {}, FALSE, "create failed")
       ELSE IF Fails(F, "noid", 3)
       THEN Out(m1, FALSE, {}, FALSE, "escaped")
       ELSE Out(done, TRUE,
                {NewTask(task_data, CHOOSE x \in next_occurrence : TRUE)},
                ~Fails(F, "publish", 4), "recurred")

\* process_completed_task with a publish whose failure reaches the outer
\* except: the task is created, nothing is marked and False is returned.
ProcessCompletedTaskStrictPublish(markers, task_data, F) ==
    LET processing_id == ProcessingId(task_data.user_id, task_data.id, now)
        m1 == MarkRecurrenceProcessingStarted(markers, processing_id, F)
        done == MarkRecurrenceProcessingCompleted(m1, processing_id, F)
        next_occurrence == CalculateNextOccurrence(task_data)
        Out(m, ok, created, published, why) ==
            [markers |-> m, ok |-> ok, created |-> created, published |-> published,
             pid |-> processing_id, why |-> why,
             marked |-> why \notin {"already completed", "exception"}]
    IN IF HasProcessedRecurrence(markers, processing_id, F)
       THEN Out(markers, TRUE, {}, FALSE, "already completed")
       ELSE IF task_data.recurrence_pattern = ""
       THEN Out(done, TRUE, {}, FALSE, "no pattern")
       ELSE IF Lower(task_data.recurrence_pattern) \notin RecurrencePattern
       THEN Out(done, FALSE, {}, FALSE, "invalid pattern")
       ELSE IF ShouldStopRecurrence(task_data)
       THEN Out(done, TRUE, {}, FALSE, "recurrence ended")
       ELSE IF next_occurrence = {}
       THEN Out(done, FALSE, {}, FALSE, "no next occurrence")
       ELSE IF Fails(F, "invoke", 3)
       THEN Out(done, FALSE, {}, FALSE, "create failed")
       ELSE IF Fails(F, "noid", 3)
       THEN \* new_task_data['id'] raises KeyError: the outer except returns False
            Out(m1, FALSE, {}, FALSE, "exception")
       ELSE IF Fails(F, "publish", 4)
       THEN Out(m1, FALSE, {NewTask(task_data, CHOOSE x \in next_occurrence : TRUE)},
                FALSE, "exception")
       ELSE Out(done, TRUE,
                {NewTask(task_data, CHOOSE x \in next_occurrence : TRUE)},
                TRUE, "recurred")

\* process_completed_task: what it leaves in the store, what it creates and
\* publishes, and what it returns
ProcessCompletedTask(markers, task_data, F) ==
    LET processing_id == ProcessingId(task_data.user_id, task_data.id, now)
        m1 == MarkRecurrenceProcessingStarted(markers, processing_id, F)
        done == MarkRecurrenceProcessingCompleted(m1, processing_id, F)
        next_occurrence == CalculateNextOccurrence(task_data)
        Out(m, ok, created, published, why) ==
            [markers |-> m, ok |-> ok, created |-> created, published |-> published,
             pid |-> processing_id, why |-> why,
             marked |-> why \notin {"already completed", "exception"}]
    IN IF HasProcessedRecurrence(markers, processing_id, F)
       THEN Out(markers, TRUE, {}, FALSE, "already completed")
       ELSE IF task_data.recurrence_pattern = ""
       THEN Out(done, TRUE, {}, FALSE, "no pattern")
       ELSE IF Lower(task_data.recurrence_pattern) \notin RecurrencePattern
       THEN Out(done, FALSE, {}, FALSE, "invalid pattern")
       ELSE IF ShouldStopRecurrence(task_data)
       THEN Out(done, TRUE, {}, FALSE, "recurrence ended")
       ELSE IF next_occurrence = {}
       THEN Out(done, FALSE, {}, FALSE, "no next occurrence")
       ELSE IF Fails(F, "invoke", 3)
       THEN Out(done, FALSE, {}, FALSE, "create failed")
       ELSE IF Fails(F, "noid", 3)
       THEN \* new_task_data['id'] raises KeyError: the outer except returns False
            Out(m1, FALSE, {}, FALSE, "exception")
       ELSE Out(done, TRUE,
                {NewTask(task_data, CHOOSE x \in next_occurrence : TRUE)},
                ~Fails(F, "publish", 4), "recurred")

\* Completion events of the model.
Date(y, m, d) == [y |-> y, m |-> m, d |-> d, time |-> 9]

\* Events of a task with a counter carry a priority, events of a task with
\* an end date carry tags; the others carry neither.
CompletionEvent(id, pattern, end_date, count, completed_at) ==
    [id |-> id, user_id |-> CHOOSE u \in Users : TRUE, title |-> "t", description |-> "d",
     priority |-> IF count = {} THEN {} ELSE {"high"},
     tags |-> IF end_date = {} THEN {} ELSE {<<"home">>},
     recurrence_pattern |-> pattern, recurrence_end_date |-> end_date,
     recurrence_count |-> count, completed_at |-> completed_at]

CompletionEvents ==
    { CompletionEvent(1, "monthly", {}, {}, Date(2024, 1, 31)),
      CompletionEvent(1, "monthly", {}, {}, Date(2024, 2, 29)),
      CompletionEvent(2, "Daily", {}, {1}, Date(2023, 12, 31)),
      CompletionEvent(2, "yearly", {}, {0}, Date(2024, 2, 29)),
      CompletionEvent(2, "weekly", {2}, {}, Date(2023, 2, 25)),
      CompletionEvent(1, "hourly", {}, {0}, Date(2023, 1, 31)),
      CompletionEvent(2, "", {}, {}, Date(2023, 1, 31)) }

Markers == [processed |-> processed, started |-> started]

\* task_completed_handler: the event loop runs process_completed_task(event_data).
\* F holds the calls that raise, of which `charged` count against MaxFaults.
Delivered(task_data, F, charged) ==
    LET out == ProcessCompletedTask(Markers, task_data, F)
    IN /\ CanRun
       /\ processed' = out.markers.processed
       /\ started' = out.markers.started
       /\ createdTasks' = createdTasks \o
             IF out.created = {} THEN <<>>
             ELSE <<[event |-> task_data, pid |-> out.pid,
                     id |-> 100 + Len(createdTasks),
                     task |-> CHOOSE x \in out.created : TRUE]>>
       /\ auditEvents' = auditEvents \o
             IF out.published
             THEN <<[event |-> task_data, pid |-> out.pid,
                     original_task_id |-> task_data.id,
                     new_task_id |-> 100 + Len(createdTasks),
                     recurrence_pattern |-> Lower(task_data.recurrence_pattern),
                     next_occurrence |-> (CHOOSE x \in out.created : TRUE).due_date]>>
             ELSE <<>>
       /\ pidsOf' = pidsOf \cup {[event |-> task_data, pid |-> out.pid]}
       /\ completedWrites' =
             IF out.marked /\ ~Fails(F, "save", 2)
             THEN Put(completedWrites, out.pid,
                      (IF out.pid \in DOMAIN completedWrites THEN completedWrites[out.pid] ELSE 0) + 1)
             ELSE completedWrites
       /\ last' = [op |-> "process_completed_task", arg |-> <<out.why>>, faults |-> F,
                   ok |-> out.ok, event |-> task_data, pid |-> out.pid, at |-> now,
                   had |-> out.pid \in processed, created |-> out.created # {},
                   published |-> out.published,
                   wrote |-> out.markers # Markers \/ (out.marked /\ ~Fails(F, "save", 2))]
       /\ ops' = ops + 1
       /\ faultsUsed' = faultsUsed + charged
       /\ UNCHANGED <<now, reminderVars, schedulerVars, lifecycleTasks, calc, fanoutVars, calls>>

TaskCompleted(task_data, F) == Delivered(task_data, F, Cardinality(F))

\* A delivery while the Task Service or the bus may be unreachable: the calls
\* in `down` raise, whatever the store does.
TaskCompletedAt(task_data, F, down) ==
    Delivered(task_data, F \cup down, Cardinality(F))

(***************************************************************************)
(* websocket_service/main.py: WebSocketManager.  reg is the registry:      *)
(* [ac |-> active_connections, ucm |-> user_connection_map].               *)
(***************************************************************************)
WsUsers == {"ua", "ub"}
WebSockets == {"w1", "w2"}

Registry == [ac |-> active_connections, ucm |-> user_connection_map]

\* WebSocketManager.connect
connect(reg, websocket, user_id) ==
    [ac |-> Put(reg.ac, user_id,
                (IF user_id \in DOMAIN reg.ac THEN reg.ac[user_id] ELSE {}) \cup {websocket}),
     ucm |-> Put(reg.ucm, websocket, user_id)]

\* WebSocketManager.disconnect
disconnect(reg, websocket) ==
    IF websocket \notin DOMAIN reg.ucm THEN reg
    ELSE LET user_id == reg.ucm[websocket]
             rest == reg.ac[user_id] \ {websocket}
         IN [ac |-> IF user_id \notin DOMAIN reg.ac THEN reg.ac
                    ELSE IF rest = {} THEN Remove(reg.ac, user_id)
                    ELSE Put(reg.ac, user_id, rest),
             ucm |-> Remove(reg.ucm, websocket)]

\* for connection in connections_to_remove: self.disconnect(connection)
RECURSIVE DisconnectEach(_, _)
DisconnectEach(reg, connections_to_remove) ==
    IF connections_to_remove = {} THEN reg
    ELSE LET connection == CHOOSE w \in connections_to_remove : TRUE
         IN DisconnectEach(disconnect(reg, connection), connections_to_remove \ {connection})

\* WebSocketManager.broadcast_to_user; closed holds the websockets whose send
\* raises.  The loop runs over a copy of the user's set.
broadcast_to_user(reg, user_id, closed) ==
    IF user_id \notin DOMAIN reg.ac THEN [reg |-> reg, sent |-> {}]
    ELSE LET copy == reg.ac[user_id]
             connections_to_remove == {connection \in copy : connection \in closed}
         IN [reg |-> DisconnectEach(reg, connections_to_remove),
             sent |-> {connection \in copy : connection \notin closed}]

SetRegistry(reg) ==
    /\ active_connections' = reg.ac
    /\ user_connection_map' = reg.ucm

Connect(websocket, user_id) ==
    /\ CanRun
    /\ SetRegistry(connect(Registry, websocket, user_id))
    /\ Ran("connect", <<websocket, user_id>>, {}, TRUE)
    /\ UNCHANGED <<now, reminderVars, schedulerVars, lifecycleTasks, recurrenceVars, calls>>

Disconnect(websocket) ==
    /\ CanRun
    /\ SetRegistry(disconnect(Registry, websocket))
    /\ Ran("disconnect", <<websocket>>, {}, TRUE)
    /\ UNCHANGED <<now, reminderVars, schedulerVars, lifecycleTasks, recurrenceVars, calls>>

BroadcastToUser(user_id, closed) ==
    LET res == broadcast_to_user(Registry, user_id, closed)
    IN /\ CanRun
       /\ SetRegistry(res.reg)
       /\ last' = [op |-> "broadcast_to_user", arg |-> <<user_id>>, faults |-> {}, ok |-> TRUE,
                   before |-> Registry, closed |-> closed, sent |-> res.sent]
       /\ ops' = ops + 1
       /\ UNCHANGED <<now, faultsUsed, reminderVars, schedulerVars, lifecycleTasks, recurrenceVars, calls>>

(***************************************************************************)
(* store_reminder and delete_reminder call by call of the state store.     *)
(* Instances of the service share the store and hold no lock, so between   *)
(* two store calls of one operation the calls of another may run.          *)
(* calls[p] is the operation process p is in: pc names its next store      *)
(* call, user_reminders and task_reminders are its local lists.            *)
(***************************************************************************)
MaxProcs == 2          \* processes that call the manager
MaxCalls == 2          \* store_reminder and delete_reminder calls in one behaviour

Procs == 1..MaxProcs

NoCall == [op |-> "none", rid |-> <<>>, pc |-> "done", user_reminders |-> <<>>,
           task_reminders |-> <<>>, ok |-> TRUE]

UserKey(reminder_id) == reminder_id[2]
TaskKey(reminder_id) == <<reminder_id[2], reminder_id[3]>>

\* "if reminder_id not in user_reminders" written without the test
AlwaysInsert(list, reminder_id) == TRUE

\* "if reminder_id not in user_reminders": whether an insertion writes
NeedsInsert(list, reminder_id) == ~InSeq(list, reminder_id)

\* Whether the call writes the list it read back: an insertion as above, a
\* removal "if reminder_id in user_reminders".
WritesBack(op, list, reminder_id) ==
    IF op = "store_reminder" THEN NeedsInsert(list, reminder_id) ELSE InSeq(list, reminder_id)

\* The insertion made on the user list as it is stored at the write, not on
\* the list the call read.
ChangedAsStored(op, list, reminder_id) ==
    IF op = "store_reminder"
    THEN (IF InSeq(userIdx[UserKey(reminder_id)], reminder_id) THEN userIdx[UserKey(reminder_id)]
          ELSE Append(userIdx[UserKey(reminder_id)], reminder_id))
    ELSE SeqRemove(list, reminder_id)

\* user_reminders.append(reminder_id) / user_reminders.remove(reminder_id)
Changed(op, list, reminder_id) ==
    IF op = "store_reminder" THEN Append(list, reminder_id) ELSE SeqRemove(list, reminder_id)

\* The call after the index helper has returned or has logged its exception.
AfterIndexes(c) ==
    IF c.op = "store_reminder" THEN [c EXCEPT !.pc = "done", !.ok = TRUE]
    ELSE [c EXCEPT !.pc = "del"]

SetCall(p, c) == calls' = [calls EXCEPT ![p] = c]

BeginStore(p, rid) ==
    /\ calls[p].pc = "done"
    /\ ops < MaxCalls
    /\ ops' = ops + 1
    /\ SetCall(p, [NoCall EXCEPT !.op = "store_reminder", !.rid = rid, !.pc = "save", !.ok = FALSE])
    /\ UNCHANGED <<now, reminderVars, last, faultsUsed, schedulerVars, lifecycleTasks,
                   recurrenceVars, fanoutVars>>

BeginDelete(p, rid) ==
    /\ calls[p].pc = "done"
    /\ ops < MaxCalls
    /\ ops' = ops + 1
    /\ SetCall(p, [NoCall EXCEPT !.op = "delete_reminder", !.rid = rid, !.pc = "get", !.ok = FALSE])
    /\ UNCHANGED <<now, reminderVars, last, faultsUsed, schedulerVars, lifecycleTasks,
                   recurrenceVars, fanoutVars>>

\* store_reminder: save_state of the entity
SaveEntity(p) ==
    LET c == calls[p]
        data == DictUpdate(ReminderData(c.rid[2], c.rid[3], DueOf(c.rid[3])), [updated_at |-> now])
    IN /\ c.pc = "save"
       /\ reminders' = Put(reminders, c.rid, data)
       /\ SetCall(p, [c EXCEPT !.pc = "uget"])
       /\ UNCHANGED <<now, userIdx, taskIdx, sendCount, markedNotified, cancelledFirst, last, ops,
                      faultsUsed, schedulerVars, lifecycleTasks, recurrenceVars, fanoutVars>>

\* delete_reminder: get_reminder; an absent reminder skips the indexes
ReadEntity(p) ==
    LET c == calls[p]
    IN /\ c.pc = "get"
       /\ SetCall(p, [c EXCEPT !.pc = IF c.rid \in DOMAIN reminders THEN "uget" ELSE "del"])
       /\ UNCHANGED <<now, reminderVars, last, ops, faultsUsed, schedulerVars, lifecycleTasks,
                      recurrenceVars, fanoutVars>>

\* get_state of an index key into the local list; when the list needs no
\* change the call goes on to its next read
ReadIndex(p) ==
    LET c == calls[p]
    IN \/ /\ c.pc = "uget"
          /\ LET list == userIdx[UserKey(c.rid)]
             IN SetCall(p, [c EXCEPT !.user_reminders = list,
                                     !.pc = IF WritesBack(c.op, list, c.rid)
                                            THEN "usave" ELSE "tget"])
          /\ UNCHANGED <<now, reminderVars, last, ops, faultsUsed, schedulerVars, lifecycleTasks,
                         recurrenceVars, fanoutVars>>
       \/ /\ c.pc = "tget"
          /\ LET list == taskIdx[TaskKey(c.rid)]
                 c1 == [c EXCEPT !.task_reminders = list]
             IN SetCall(p, IF WritesBack(c.op, list, c.rid)
                           THEN [c1 EXCEPT !.pc = "tsave"] ELSE AfterIndexes(c1))
          /\ UNCHANGED <<now, reminderVars, last, ops, faultsUsed, schedulerVars, lifecycleTasks,
                         recurrenceVars, fanoutVars>>

\* the local list changed in place and written back with save_state
WriteIndex(p) ==
    LET c == calls[p]
    IN \/ /\ c.pc = "usave"
          /\ LET list == Changed(c.op, c.user_reminders, c.rid)
             IN /\ userIdx' = [userIdx EXCEPT ![UserKey(c.rid)] = list]
                /\ SetCall(p, [c EXCEPT !.user_reminders = list, !.pc = "tget"])
          /\ UNCHANGED <<now, reminders, taskIdx, sendCount, markedNotified, cancelledFirst, last,
                         ops, faultsUsed, schedulerVars, lifecycleTasks, recurrenceVars, fanoutVars>>
       \/ /\ c.pc = "tsave"
          /\ LET list == Changed(c.op, c.task_reminders, c.rid)
             IN /\ taskIdx' = [taskIdx EXCEPT ![TaskKey(c.rid)] = list]
                /\ SetCall(p, AfterIndexes([c EXCEPT !.task_reminders = list]))
          /\ UNCHANGED <<now, reminders, userIdx, sendCount, markedNotified, cancelledFirst, last,
                         ops, faultsUsed, schedulerVars, lifecycleTasks, recurrenceVars, fanoutVars>>

\* delete_reminder: delete_state of the entity
DeleteEntity(p) ==
    LET c == calls[p]
    IN /\ c.pc = "del"
       /\ reminders' = Remove(reminders, c.rid)
       /\ SetCall(p, [c EXCEPT !.pc = "done", !.ok = TRUE])
       /\ UNCHANGED <<now, userIdx, taskIdx, sendCount, markedNotified, cancelledFirst, last, ops,
                      faultsUsed, schedulerVars, lifecycleTasks, recurrenceVars, fanoutVars>>

\* The next store call of p raises: the entity write and the entity delete
\* end the operation with False, the entity read answers None, a call of an
\* index helper ends the helper.
Raise(p) ==
    LET c == calls[p]
    IN /\ c.pc # "done"
       /\ faultsUsed < MaxFaults
       /\ faultsUsed' = faultsUsed + 1
       /\ SetCall(p, IF c.pc \in {"save", "del"} THEN [c EXCEPT !.pc = "done", !.ok = FALSE]
                     ELSE IF c.pc = "get" THEN [c EXCEPT !.pc = "del"]
                     ELSE AfterIndexes(c))
       /\ UNCHANGED <<now, reminderVars, last, ops, schedulerVars, lifecycleTasks,
                      recurrenceVars, fanoutVars>>

(***************************************************************************)
(* notification_service/main.py: NotificationDelivery.  channels is the    *)
(* optional list of channel names (nothing for None); raising is the set   *)
(* of positions of the list whose handler raises.                          *)
(***************************************************************************)
MaxChannels == 3       \* channel names in one call

KnownChannels == {"email", "push", "sms", "log"}
ChannelNames == KnownChannels \cup {"fax"}

\* "status" of what each handler returns
HandlerStatus(channel) ==
    CASE channel = "email" -> "email_sent"
      [] channel = "push" -> "push_sent"
      [] channel = "sms" -> "sms_sent"
      [] channel = "log" -> "logged"

\* The loop without its try/except: the first handler that raises ends it.
RECURSIVE DispatchUnguarded(_, _, _, _)
DispatchUnguarded(channels, raising, i, results) ==
    IF i > Len(channels) THEN results
    ELSE IF channels[i] \in KnownChannels /\ i \in raising THEN results
    ELSE DispatchUnguarded(channels, raising, i + 1,
             Put(results, channels[i],
                 IF channels[i] \in KnownChannels
                 THEN [status |-> HandlerStatus(channels[i])]
                 ELSE [status |-> "unknown_channel"]))

\* for channel in channels: results[channel] = ...
RECURSIVE Dispatch(_, _, _, _)
Dispatch(channels, raising, i, results) ==
    IF i > Len(channels) THEN results
    ELSE Dispatch(channels, raising, i + 1,
             Put(results, channels[i],
                 IF channels[i] \in KnownChannels
                 THEN (IF i \in raising THEN [status |-> "failed"]
                       ELSE [status |-> HandlerStatus(channels[i])])
                 ELSE [status |-> "unknown_channel"]))

\* if channels is None: channels = ['log']
EffectiveChannels(channels) ==
    IF channels = {} THEN <<"log">> ELSE CHOOSE x \in channels : TRUE

DeliverySendNotification(channels, raising) ==
    Dispatch(EffectiveChannels(channels), raising, 1, [c \in {} |-> 0])

ChannelLists ==
    {{}} \cup {{l} : l \in UNION {[1..n -> ChannelNames] : n \in 0..MaxChannels}}

SendNotificationOp(channels, raising) ==
    /\ last.op # "send_notification"
    /\ last' = [op |-> "send_notification", arg |-> channels, faults |-> raising,
                ok |-> DeliverySendNotification(channels, raising)]
    /\ ops' = ops + 1
    /\ UNCHANGED <<now, reminderVars, faultsUsed, schedulerVars, lifecycleTasks, recurrenceVars,
                   fanoutVars, calls>>

(***************************************************************************)
(* process_completed_task call by call of the state store.  Each event is  *)
(* handed to the event loop as a task of its own (task_completed_handler), *)
(* so between two store calls of one delivery the calls of another may     *)
(* run.  create_task and the publish are synchronous calls: they run in    *)
(* the same stretch as the code around them.  calls[p] holds the delivery  *)
(* process p is in, its processing_id and the calls of it that raise.      *)
(***************************************************************************)
NoMarkers == [processed |-> {}, started |-> {}]

BeginProcess(p, task_data, F) ==
    /\ calls[p].pc = "done"
    /\ ops < MaxCalls
    /\ ops' = ops + 1
    /\ faultsUsed' = faultsUsed + Cardinality(F)
    /\ LET processing_id == ProcessingId(task_data.user_id, task_data.id, now)
       IN /\ calls' = [calls EXCEPT ![p] =
                          [op |-> "process_completed_task", pc |-> "check", task_data |-> task_data,
                           processing_id |-> processing_id, faults |-> F, ok |-> FALSE]]
          /\ pidsOf' = pidsOf \cup {[event |-> task_data, pid |-> processing_id]}
    /\ UNCHANGED <<now, reminderVars, last, schedulerVars, lifecycleTasks, processed, started,
                   createdTasks, auditEvents, completedWrites, calc, fanoutVars>>

\* has_processed_recurrence: get_state of the completed marker
CheckProcessed(p) ==
    LET c == calls[p]
    IN /\ c.op = "process_completed_task" /\ c.pc = "check"
       /\ calls' = [calls EXCEPT ![p] =
                       IF HasProcessedRecurrence(Markers, c.processing_id, c.faults)
                       THEN [c EXCEPT !.pc = "done", !.ok = TRUE]
                       ELSE [c EXCEPT !.pc = "start"]]
       /\ UNCHANGED <<now, reminderVars, last, ops, faultsUsed, schedulerVars, lifecycleTasks,
                      recurrenceVars, fanoutVars>>

\* save_state of the started marker, then the code up to the save_state of
\* the completed marker: the pattern, the stop condition, the next
\* occurrence, create_task and the publish
StartAndCreate(p) ==
    LET c == calls[p]
        out == ProcessCompletedTask(NoMarkers, c.task_data, c.faults \ {<<"get", 0>>})
    IN /\ c.op = "process_completed_task" /\ c.pc = "start"
       /\ started' = MarkRecurrenceProcessingStarted(Markers, c.processing_id, c.faults).started
       /\ createdTasks' = createdTasks \o
             IF out.created = {} THEN <<>>
             ELSE <<[event |-> c.task_data, pid |-> c.processing_id,
                     id |-> 100 + Len(createdTasks),
                     task |-> CHOOSE x \in out.created : TRUE]>>
       /\ auditEvents' = auditEvents \o
             IF out.published
             THEN <<[event |-> c.task_data, pid |-> c.processing_id,
                     original_task_id |-> c.task_data.id,
                     new_task_id |-> 100 + Len(createdTasks),
                     recurrence_pattern |-> Lower(c.task_data.recurrence_pattern),
                     next_occurrence |-> (CHOOSE x \in out.created : TRUE).due_date]>>
             ELSE <<>>
       /\ calls' = [calls EXCEPT ![p] =
                       IF out.why = "exception" THEN [c EXCEPT !.pc = "done", !.ok = FALSE]
                       ELSE [c EXCEPT !.pc = "complete", !.ok = out.ok]]
       /\ UNCHANGED <<now, reminderVars, last, ops, faultsUsed, schedulerVars, lifecycleTasks,
                      processed, pidsOf, completedWrites, calc, fanoutVars>>

\* mark_recurrence_processing_completed: save_state of the completed marker
WriteCompleted(p) ==
    LET c == calls[p]
    IN /\ c.op = "process_completed_task" /\ c.pc = "complete"
       /\ IF Fails(c.faults, "save", 2)
          THEN /\ calls' = [calls EXCEPT ![p] = [c EXCEPT !.pc = "done"]]
               /\ UNCHANGED <<processed, completedWrites>>
          ELSE /\ calls' = [calls EXCEPT ![p] = [c EXCEPT !.pc = "remove"]]
               /\ processed' = processed \cup {c.processing_id}
               /\ completedWrites' =
                     Put(completedWrites, c.processing_id,
                         (IF c.processing_id \in DOMAIN completedWrites
                          THEN completedWrites[c.processing_id] ELSE 0) + 1)
       /\ UNCHANGED <<now, reminderVars, last, ops, faultsUsed, schedulerVars, lifecycleTasks,
                      started, createdTasks, auditEvents, pidsOf, calc, fanoutVars>>

\* mark_recurrence_processing_completed: delete_state of the started marker
RemoveStarted(p) ==
    LET c == calls[p]
    IN /\ c.op = "process_completed_task" /\ c.pc = "remove"
       /\ started' = IF Fails(c.faults, "del", 2) THEN started ELSE started \ {c.processing_id}
       /\ calls' = [calls EXCEPT ![p] = [c EXCEPT !.pc = "done"]]
       /\ UNCHANGED <<now, reminderVars, last, ops, faultsUsed, schedulerVars, lifecycleTasks,
                      processed, createdTasks, auditEvents, pidsOf, completedWrites, calc,
                      fanoutVars>>

(***************************************************************************)
(* Specifications.                                                         *)
(***************************************************************************)
Init ==
    /\ now = 0
    /\ reminders = [k \in {} |-> 0]
    /\ userIdx = [u \in Users |-> <<>>]
    /\ taskIdx = [k \in Users \X Tasks |-> <<>>]
    /\ sendCount = [r \in RIds |-> 0]
    /\ markedNotified = {}
    /\ cancelledFirst = {}
    /\ last = [op |-> "init", arg |-> <<>>, faults |-> {}, ok |-> TRUE]
    /\ ops = 0
    /\ faultsUsed = 0
    /\ bus = {}
    /\ checking_reminders = FALSE
    /\ scans = <<>>
    /\ lifecycleTasks = <<>>
    /\ processed = {}
    /\ started = {}
    /\ createdTasks = <<>>
    /\ auditEvents = <<>>
    /\ pidsOf = {}
    /\ completedWrites = [p \in {} |-> 0]
    /\ calc = <<>>
    /\ active_connections = [u \in {} |-> {}]
    /\ user_connection_map = [w \in {} |-> ""]
    /\ calls = [p \in Procs |-> NoCall]

\* The Reminder Lifecycle Manager, the reminder handler (events handed to it
\* directly) and the lifecycle handlers.
Next ==
    \/ Tick
    \/ \E u \in Users, t \in Tasks, s \in {StrftimeSeconds(c) : c \in Clock} :
          \E F \in FaultSets(StorePoints(0)) : StoreReminderOp(u, t, s, F)
    \/ \E rid \in RIds, F \in FaultSets(EntityPoints(0)) : MarkNotifiedOp(rid, F)
    \/ \E rid \in RIds, F \in FaultSets(EntityPoints(0)) : CancelReminderOp(rid, F)
    \/ \E rid \in RIds, F \in FaultSets(DeletePoints(0)) : DeleteReminderOp(rid, F)
    \/ \E u \in Users, t \in Tasks :
          \E F \in FaultSets({<<"iget", 0>>} \cup EntityPoints(1) \cup EntityPoints(11)) :
             CancelTaskRemindersOp(u, t, F)
    \/ \E ev \in ReminderEvents, F \in FaultSets(HandlerPoints) : ReminderHandler(ev, F)
    \/ \E ev \in UpdateEvents : TaskUpdateHandler(ev)
    \/ \E ev \in DeleteEvents : TaskDeleteHandler(ev)
    \/ RunLifecycleTask

Spec == Init /\ [][Next]_vars

\* store_reminder and delete_reminder alone.
MaxStoreOps == 2       \* store and delete operations in one behaviour

NextStore ==
    \/ Tick
    \/ \E u \in Users, t \in Tasks, s \in {StrftimeSeconds(c) : c \in Clock} :
          \E F \in FaultSets(StorePoints(0)) : ops < MaxStoreOps /\ StoreReminderOp(u, t, s, F)
    \/ \E rid \in RIds, F \in FaultSets(DeletePoints(0)) :
          ops < MaxStoreOps /\ DeleteReminderOp(rid, F)

SpecStore == Init /\ [][NextStore]_vars

\* The Reminder Lifecycle Manager called directly: store, update, delete and
\* the read-only operations.
MaxManagerOps == 2     \* operations of the manager in one behaviour

NextManager ==
    \/ Tick
    \/ \E u \in Users, t \in Tasks, s \in {StrftimeSeconds(c) : c \in Clock} :
          \E F \in FaultSets(StorePoints(0)) : ops < MaxManagerOps /\ StoreReminderOp(u, t, s, F)
    \/ \E rid \in RIds, updates \in PartialFields, F \in FaultSets(EntityPoints(0)) :
          ops < MaxManagerOps /\ UpdateReminderOp(rid, updates, F)
    \/ \E rid \in RIds, F \in FaultSets(DeletePoints(0)) :
          ops < MaxManagerOps /\ DeleteReminderOp(rid, F)
    \/ \E rid \in RIds, F \in FaultSets({<<"get", 0>>}) :
          ops < MaxManagerOps /\ IsNotifiedOp(rid, F)
    \/ \E rid \in RIds, F \in FaultSets({<<"get", 0>>}) :
          ops < MaxManagerOps /\ IsCancelledOp(rid, F)
    \/ \E u \in Users, F \in FaultSets(ListPoints) :
          ops < MaxManagerOps /\ GetUserRemindersOp(u, F)
    \/ \E u \in Users, t \in Tasks, F \in FaultSets(ListPoints) :
          ops < MaxManagerOps /\ GetTaskRemindersOp(u, t, F)

SpecManager == Init /\ [][NextManager]_vars

\* store_reminder and delete_reminder of several processes, interleaved at
\* the calls of the state store.
NextInterleaved ==
    \/ \E p \in Procs, rid \in RIds : BeginStore(p, rid)
    \/ \E p \in Procs, rid \in RIds : BeginDelete(p, rid)
    \/ \E p \in Procs : SaveEntity(p)
    \/ \E p \in Procs : ReadEntity(p)
    \/ \E p \in Procs : ReadIndex(p)
    \/ \E p \in Procs : WriteIndex(p)
    \/ \E p \in Procs : DeleteEntity(p)
    \/ \E p \in Procs : Raise(p)

SpecInterleaved == Init /\ [][NextInterleaved]_vars

\* The Notification Dispatcher.
NextDelivery ==
    \E channels \in ChannelLists :
       \E raising \in SUBSET (1..Len(EffectiveChannels(channels))) :
          SendNotificationOp(channels, raising)

SpecDelivery == Init /\ [][NextDelivery]_vars

\* The operations of the Reminder Lifecycle Manager, the reminder handler and
\* the Recurrence Generator, each with the calls of it that raise.
MaxOutcomeOps == 2     \* operations in one behaviour

NextOutcomes ==
    \/ \E u \in Users, t \in Tasks, s \in {StrftimeSeconds(c) : c \in Clock} :
          \E F \in FaultSets(StorePoints(0)) : ops < MaxOutcomeOps /\ StoreReminderOp(u, t, s, F)
    \/ \E rid \in RIds, updates \in PartialFields, F \in FaultSets(EntityPoints(0)) :
          ops < MaxOutcomeOps /\ UpdateReminderOp(rid, updates, F)
    \/ \E rid \in RIds, F \in FaultSets(EntityPoints(0)) :
          ops < MaxOutcomeOps /\ MarkNotifiedOp(rid, F)
    \/ \E rid \in RIds, F \in FaultSets(EntityPoints(0)) :
          ops < MaxOutcomeOps /\ CancelReminderOp(rid, F)
    \/ \E rid \in RIds, F \in FaultSets(DeletePoints(0)) :
          ops < MaxOutcomeOps /\ DeleteReminderOp(rid, F)
    \/ \E rid \in RIds, F \in FaultSets({<<"get", 0>>}) :
          ops < MaxOutcomeOps /\ IsNotifiedOp(rid, F)
    \/ \E rid \in RIds, F \in FaultSets({<<"get", 0>>}) :
          ops < MaxOutcomeOps /\ IsCancelledOp(rid, F)
    \/ \E u \in Users, F \in FaultSets(ListPoints) :
          ops < MaxOutcomeOps /\ GetUserRemindersOp(u, F)
    \/ \E u \in Users, t \in Tasks, F \in FaultSets(ListPoints) :
          ops < MaxOutcomeOps /\ GetTaskRemindersOp(u, t, F)
    \/ \E u \in Users, t \in Tasks :
          \E F \in FaultSets({<<"iget", 0>>} \cup EntityPoints(1) \cup EntityPoints(11)) :
             ops < MaxOutcomeOps /\ CancelTaskRemindersOp(u, t, F)
    \/ \E ev \in ReminderEvents, F \in FaultSets(HandlerPoints) :
          ops < MaxOutcomeOps /\ ReminderHandler(ev, F)
    \/ \E ev \in CompletionEvents, F \in FaultSets(RecurrencePoints) :
          ops < MaxOutcomeOps /\ TaskCompleted(ev, F)

SpecOutcomes == Init /\ [][NextOutcomes]_vars

\* Deliveries of completion events handled concurrently.
NextDeliveries ==
    \/ \E p \in Procs, ev \in CompletionEvents, F \in FaultSets(RecurrencePoints) :
          BeginProcess(p, ev, F)
    \/ \E p \in Procs : CheckProcessed(p)
    \/ \E p \in Procs : StartAndCreate(p)
    \/ \E p \in Procs : WriteCompleted(p)
    \/ \E p \in Procs : RemoveStarted(p)

SpecDeliveries == Init /\ [][NextDeliveries]_vars

\* Concurrent deliveries of a recurring and of a non-recurring task, the
\* marker calls being the ones that may raise.
LifecycleEvents ==
    {ev \in CompletionEvents :
        \/ ev.recurrence_pattern = ""
        \/ ev.recurrence_pattern = "Daily"
        \/ ev.recurrence_pattern = "monthly" /\ ev.completed_at.m = 1}

NextLifecycle ==
    \/ \E p \in Procs, ev \in LifecycleEvents,
          F \in FaultSets({<<"save", 1>>, <<"save", 2>>, <<"del", 2>>}) :
          BeginProcess(p, ev, F)
    \/ \E p \in Procs : CheckProcessed(p)
    \/ \E p \in Procs : StartAndCreate(p)
    \/ \E p \in Procs : WriteCompleted(p)
    \/ \E p \in Procs : RemoveStarted(p)

SpecLifecycle == Init /\ [][NextLifecycle]_vars

\* The periodic scan, the bus and the reminder handler.
NextScheduler ==
    \/ Tick
    \/ ReminderCheck
    \/ ManualTrigger
    \/ \E due_tasks \in DueLists, F \in FaultSets(ScanPoints) : RunScan(due_tasks, F)
    \/ \E F \in FaultSets(HandlerPoints) : DeliverReminder(F)

SpecScheduler == Init /\ [][NextScheduler]_vars

\* The Recurrence Generator.
NextRecurrence ==
    \/ Tick
    \/ \E ev \in CompletionEvents, F \in FaultSets(RecurrencePoints) : TaskCompleted(ev, F)

SpecRecurrence == Init /\ [][NextRecurrence]_vars

\* The Change Fan-out Registry.
NextFanout ==
    \/ \E websocket \in WebSockets, user_id \in WsUsers : Connect(websocket, user_id)
    \/ \E websocket \in WebSockets : Disconnect(websocket)
    \/ \E user_id \in WsUsers, closed \in SUBSET WebSockets : BroadcastToUser(user_id, closed)

SpecFanout == Init /\ [][NextFanout]_vars

\* The Recurrence Generator on the completion events that carry a termination
\* condition.
MaxStopOps == 2        \* invocations of process_completed_task in one behaviour

TerminationEvents ==
    {e \in CompletionEvents : e.recurrence_end_date # {} \/ e.recurrence_count # {}}

NextTermination ==
    \/ Tick
    \/ \E ev \in TerminationEvents, F \in FaultSets(RecurrencePoints) :
          ops < MaxStopOps /\ TaskCompleted(ev, F)

SpecTermination == Init /\ [][NextTermination]_vars

(***************************************************************************)
(* Deliveries while the Task Service and the bus come and go.              *)
(***************************************************************************)
Remote == {<<"invoke", 3>>, <<"publish", 4>>}

NextUnreachable ==
    \E ev \in CompletionEvents, F \in FaultSets(RecurrencePoints \ Remote), down \in SUBSET Remote :
          ops < MaxStopOps /\ TaskCompletedAt(ev, F, down)

SpecUnreachable == Init /\ [][NextUnreachable]_vars

(***************************************************************************)
(* The chain of a task with a remaining-occurrences counter: the task is   *)
(* completed, then the task created for it, and so on, each once.          *)
(***************************************************************************)
MaxCount == 2          \* the largest recurrence_count of a first task

\* The completion event of a task record create_task returned, completed on
\* its due date.
CompletionOf(created) ==
    [id |-> created.id, user_id |-> created.task.user_id, title |-> created.task.title,
     description |-> created.task.description,
     priority |-> created.task.priority, tags |-> created.task.tags,
     recurrence_pattern |-> created.task.recurrence_pattern,
     recurrence_end_date |-> created.task.recurrence_end_date,
     recurrence_count |-> created.task.recurrence_count,
     completed_at |-> created.task.due_date]

ChainRoots ==
    {CompletionEvent(1, p, {}, {n}, Date(2023, 12, 31)) : p \in RecurrencePattern, n \in 0..MaxCount}

\* The task to complete next: the first task, then the one created last.
NewestTasks ==
    IF createdTasks = <<>> THEN ChainRoots
    ELSE {CompletionOf(createdTasks[Len(createdTasks)])}

CompleteNewest(task_data, F) ==
    /\ task_data \in NewestTasks
    /\ IF createdTasks = <<>> THEN pidsOf = {}      \* no first task completed yet
       ELSE \A x \in pidsOf : x.event # task_data  \* the newest not completed yet
    /\ TaskCompleted(task_data, F)

NextChain ==
    \/ Tick
    \/ \E ev \in NewestTasks, F \in FaultSets(RecurrencePoints) : CompleteNewest(ev, F)

SpecChain == Init /\ [][NextChain]_vars

(***************************************************************************)
(* calculate_next_occurrence applied to completion instants of the         *)
(* calendar: a common year, a leap year, a century that is a leap year and *)
(* one that is not.                                                        *)
(***************************************************************************)
Years == {2000, 2023, 2024, 2100}

CalendarDates ==
    {dt \in {Date(y, m, d) : y \in Years, m \in 1..12, d \in 1..31} :
        dt.d <= DaysInMonth(dt.y, dt.m)}

CalcInputs ==
    {CompletionEvent(1, p, {}, {}, dt) :
        p \in RecurrencePattern \cup {"Daily", "hourly"}, dt \in CalendarDates}

Calculate(task_data) ==
    /\ calc = <<>> /\ last.op = "init"
    /\ calc' = [task_data |-> task_data, out |-> CalculateNextOccurrence(task_data)]
    /\ UNCHANGED <<now, reminderVars, last, ops, faultsUsed, schedulerVars, lifecycleTasks,
                   processed, started, createdTasks, auditEvents, pidsOf, completedWrites,
                   fanoutVars, calls>>

\* add_months on its own, for the dates above and for the last year datetime
\* can hold, and for every number of months up to MaxMonths.
MaxMonths == 13        \* the largest number of months added

AddMonthsInputs ==
    CalendarDates \cup
    {dt \in {Date(9999, m, d) : m \in 1..12, d \in 1..31} : dt.d <= DaysInMonth(dt.y, dt.m)}

AddMonths(dt, months) ==
    /\ calc = <<>> /\ last.op = "init"
    /\ last' = [op |-> "add_months", arg |-> <<dt, months>>, faults |-> {},
                ok |-> add_months_or_raise(dt, months)]
    /\ UNCHANGED <<now, reminderVars, ops, faultsUsed, schedulerVars, lifecycleTasks,
                   recurrenceVars, fanoutVars, calls>>

NextCalendar ==
    \/ /\ calc = <<>> /\ last.op = "init"
       /\ \E task_data \in CalcInputs : Calculate(task_data)
    \/ /\ calc = <<>> /\ last.op = "init"
       /\ \E dt \in AddMonthsInputs, months \in 0..MaxMonths : AddMonths(dt, months)

SpecCalendar == Init /\ [][NextCalendar]_vars

(***************************************************************************)
(* Properties.                                                             *)
(***************************************************************************)
RECURSIVE SumOver(_, _)
SumOver(f, S) ==
    IF S = {} THEN 0
    ELSE LET x == CHOOSE y \in S : TRUE IN f[x] + SumOver(f, S \ {x})

CountIn(seq, Test(_)) == Cardinality({i \in 1..Len(seq) : Test(seq[i])})

TasksFor(e) == LET Of(x) == x.event = e IN CountIn(createdTasks, Of)
AuditsFor(e) == LET Of(x) == x.event = e IN CountIn(auditEvents, Of)
Handled(e) == \E x \in pidsOf : x.event = e

\* A completion event every handling of which finds a pattern of the
\* enumeration and no termination condition.
AlwaysRecurs(e) ==
    /\ Lower(e.recurrence_pattern) \in RecurrencePattern
    /\ e.recurrence_end_date = {}
    /\ \A c \in e.recurrence_count : c > 0

\* C1: when one completion event that recurs has been handed to
\* process_completed_task N >= 1 times (its retried deliveries being the
\* deliveries with the same processing identity), nothing else was handled
\* and no call raised, exactly one new task has been created and exactly one
\* recurrence audit event published.
C1_IdempotentRecurrence ==
    \A e \in CompletionEvents :
        (/\ faultsUsed = 0
         /\ AlwaysRecurs(e)
         /\ Handled(e)
         /\ \A x \in pidsOf : x.event = e)
            => (TasksFor(e) = 1 /\ AuditsFor(e) = 1)

\* C2: once mark_reminder_as_notified has succeeded for a reminder identity,
\* no later step invokes send_notification for that identity.
C2_NoSendAfterNotified ==
    [][\A r \in RIds : r \in markedNotified => sendCount'[r] = sendCount[r]]_vars

\* C3: a reminder whose cancellation committed before any notification
\* attempt for it is never sent.
C3_CancellationPrecedence == \A r \in cancelledFirst : sendCount[r] = 0

\* The notifications sent for one task occurrence (a user's task with its due date).
NotificationsFor(user_id, task_id) ==
    SumOver(sendCount, {r \in RIds : r[2] = user_id /\ r[3] = task_id})

\* C4: over any number of scans and reminder events, the user is notified at
\* most once for one task occurrence.
C4_AtMostOncePerOccurrence ==
    \A u \in Users, t \in Tasks : NotificationsFor(u, t) <= 1

\* C5: right after cancel_task_reminders(u, t) has run with no call raising,
\* every reminder get_task_reminders(u, t) lists is cancelled.
C5_ListedAreCancelled ==
    (last.op = "cancel_task_reminders" /\ last.faults = {})
       => LET listed == GetTaskReminders(Db, last.arg[1], last.arg[2], {})
          IN \A i \in 1..Len(listed) : Cancelled(listed[i])

\* C6: when the cancellation a task-deleted event, or a task-updated event
\* with a changed due date, set off for (user, task) has run, every stored
\* reminder of that user and task is cancelled.
C6_LifecycleEventCancels ==
    last.op = "lifecycle_cancel_task_reminders"
       => \A r \in DOMAIN reminders :
             (reminders[r].user_id = last.arg[1] /\ reminders[r].task_id = last.arg[2])
                => Cancelled(reminders[r])

\* C7: every delivery of one completion event derives the same processing
\* identity, and two distinct completions of one task derive different ones.
C7_IdentityOfCompletion ==
    \A x \in pidsOf, y \in pidsOf :
        /\ x.event = y.event => x.pid = y.pid
        /\ (x.event # y.event /\ x.event.id = y.event.id /\ x.event.user_id = y.event.user_id)
              => x.pid # y.pid

\* C8: no stored reminder is both notified and cancelled.
C8_NotifiedXorCancelled ==
    \A r \in DOMAIN reminders : ~(Notified(reminders[r]) /\ Cancelled(reminders[r]))

\* C9: after mark_reminder_as_notified has succeeded for a reminder (and the
\* reminder was not deleted since), is_reminder_notified reports True.
C9_NotifiedStaysNotified ==
    \A r \in markedNotified : IsReminderNotified(Db, r, {}, 0)

\* C10: at most one scan created by reminder_check is in flight.
C10_OneScanInFlight ==
    LET Cron(x) == x = "cron" IN CountIn(scans, Cron) <= 1

\* C11: when process_completed_task has returned, on whatever path, and the
\* write of the completed marker was not refused by the store, a completed
\* marker is stored for its processing identity.
C11_AlwaysCompleted ==
    (last.op = "process_completed_task" /\ ~Fails(last.faults, "save", 2))
       => last.pid \in processed

\* C12: an invocation of process_completed_task that starts with a completed
\* marker stored for its processing identity returns success and has written
\* no marker, created no task and published no event.
C12_SkipWhenCompleted ==
    (last.op = "process_completed_task" /\ last.had)
       => (last.ok /\ ~last.wrote /\ ~last.created /\ ~last.published)

\* C13: a stored completed marker is never deleted or written again, and the
\* deliveries of one completion event leave at most one completed marker.
C13_CompletedImmutable ==
    /\ [][\A p \in processed :
             p \in processed' /\ completedWrites'[p] = completedWrites[p]]_vars
    /\ [](\A x \in pidsOf, y \in pidsOf :
             (x.event = y.event /\ x.pid \in processed /\ y.pid \in processed)
                => x.pid = y.pid)

\* The first task of the chain, once completed.
ChainOver ==
    /\ pidsOf # {}
    /\ createdTasks # <<>> =>
          \E x \in pidsOf : x.event = CompletionOf(createdTasks[Len(createdTasks)])

\* C14: in a chain, every created task was created for a task with a counter
\* above 0 and carries that counter minus one (so completing a task with
\* counter 0 creates none); a first task with counter n never has more than n
\* created tasks, and has exactly n when the chain is over and no call went
\* wrong.
C14_TerminationByCount ==
    /\ \A i \in 1..Len(createdTasks) :
          LET c == createdTasks[i]
          IN /\ c.event.recurrence_count # {}
             /\ \A k \in c.event.recurrence_count :
                   k > 0 /\ c.task.recurrence_count = {k - 1}
    /\ \A e \in ChainRoots : (\E x \in pidsOf : x.event = e) =>
          \A n \in e.recurrence_count :
             /\ Len(createdTasks) <= n
             /\ (faultsUsed = 0 /\ ChainOver) => Len(createdTasks) = n

C14_Witness ==
    /\ faultsUsed = 0
    /\ ChainOver
    /\ Len(createdTasks) = MaxCount
    /\ createdTasks[Len(createdTasks)].task.recurrence_count = {0}
    /\ \E e \in ChainRoots : e.recurrence_count = {MaxCount} /\ \E x \in pidsOf : x.event = e

\* The termination condition of a completion event at a clock reading.
StopCondition(e, at) ==
    \/ \E end_date \in e.recurrence_end_date : at >= end_date
    \/ \E recurrence_count \in e.recurrence_count : recurrence_count <= 0

GregorianLeap(y) == (y % 4 = 0 /\ y % 100 # 0) \/ y % 400 = 0

LastDayOf(y, m) ==
    IF m = 2 THEN (IF GregorianLeap(y) THEN 29 ELSE 28)
    ELSE IF m \in {4, 6, 9, 11} THEN 30 ELSE 31

RECURSIVE DaysBeforeMonth(_, _)
DaysBeforeMonth(y, m) == IF m = 1 THEN 0 ELSE DaysBeforeMonth(y, m - 1) + LastDayOf(y, m - 1)

Ordinal(dt) ==
    365 * (dt.y - 1) + ((dt.y - 1) \div 4) - ((dt.y - 1) \div 100) + ((dt.y - 1) \div 400)
       + DaysBeforeMonth(dt.y, dt.m) + dt.d

ValidDate(dt) == dt.m \in 1..12 /\ dt.d \in 1..LastDayOf(dt.y, dt.m)

\* dt is c moved by a number of calendar months, the day clamped to the
\* last day of the month reached.
MonthsLater(c, dt, months) ==
    /\ 12 * dt.y + (dt.m - 1) = 12 * c.y + (c.m - 1) + months
    /\ dt.d = (IF c.d <= LastDayOf(dt.y, dt.m) THEN c.d ELSE LastDayOf(dt.y, dt.m))

\* C16: calculate_next_occurrence gives, at the same time of day, the next
\* day for daily, the seventh day after for weekly, and for monthly and
\* yearly the date 1 and 12 calendar months later with the day clamped to the
\* last day of that month; Jan 31 + monthly is Feb 28 in a common year and
\* Feb 29 in a leap year, Feb 29 + yearly is Feb 28 of the next year.
C16_NextOccurrence ==
    calc # <<>> =>
       LET c == calc.task_data.completed_at
           pattern == Lower(calc.task_data.recurrence_pattern)
       IN /\ pattern \in RecurrencePattern =>
                \E dt \in calc.out :
                   /\ calc.out = {dt}
                   /\ ValidDate(dt) /\ dt.time = c.time
                   /\ pattern = "daily" => Ordinal(dt) = Ordinal(c) + 1
                   /\ pattern = "weekly" => Ordinal(dt) = Ordinal(c) + 7
                   /\ pattern = "monthly" => MonthsLater(c, dt, 1)
                   /\ pattern = "yearly" => MonthsLater(c, dt, 12)
          /\ (pattern = "monthly" /\ c = Date(2023, 1, 31)) => calc.out = {Date(2023, 2, 28)}
          /\ (pattern = "monthly" /\ c = Date(2024, 1, 31)) => calc.out = {Date(2024, 2, 29)}
          /\ (pattern = "yearly" /\ c = Date(2024, 2, 29)) => calc.out = {Date(2025, 2, 28)}

C16_Witness ==
    /\ calc # <<>>
    /\ calc.task_data.recurrence_pattern = "yearly"
    /\ calc.task_data.completed_at = Date(2024, 2, 29)
    /\ calc.out = {Date(2025, 2, 28)}

\* The websockets the registry held for a user when the last broadcast began.
LiveBefore(user_id) ==
    IF user_id \in DOMAIN last.before.ac THEN last.before.ac[user_id] ELSE {}

\* C17: after broadcast_to_user(u, message), every live handle of u whose
\* send did not raise has received the message, and every handle of u whose
\* send raised is in neither u's set nor the backward map.
C17_FanOutIsolation ==
    last.op = "broadcast_to_user" =>
       LET u == last.arg[1]
           failing == LiveBefore(u) \cap last.closed
       IN /\ last.sent = LiveBefore(u) \ failing
          /\ \A w \in failing :
                /\ w \notin DOMAIN user_connection_map
                /\ u \in DOMAIN active_connections => w \notin active_connections[u]

\* C18: broadcast_to_user(u, message), no send raising, delivers to every
\* handle registered for u and to no handle the registry holds for another
\* user.
C18_UserIsolation ==
    (last.op = "broadcast_to_user" /\ last.closed = {}) =>
       LET u == last.arg[1]
       IN /\ LiveBefore(u) \subseteq last.sent
          /\ \A w \in last.sent :
                /\ w \in DOMAIN last.before.ucm => last.before.ucm[w] = u
                /\ \A v \in DOMAIN last.before.ac \ {u} : w \notin last.before.ac[v]

\* The store without the entity of a key.
Without(db, reminder_id) == [db EXCEPT !.r = Remove(@, reminder_id)]

\* C19: for a stored reminder, what get_reminder and is_reminder_notified
\* report when the store read raises differs from what they report for an
\* absent reminder; likewise has_processed_recurrence for a stored completed
\* marker.
C19_FailedReadIsNotAbsent ==
    /\ \A r \in DOMAIN reminders :
          /\ GetReminder(Db, r, {<<"get", 0>>}, 0) # GetReminder(Without(Db, r), r, {}, 0)
          /\ IsReminderNotified(Db, r, {<<"get", 0>>}, 0)
                # IsReminderNotified(Without(Db, r), r, {}, 0)
    /\ \A p \in processed :
          HasProcessedRecurrence(Markers, p, {<<"get", 0>>})
             # HasProcessedRecurrence([Markers EXCEPT !.processed = @ \ {p}], p, {})

\* C20: store_reminder returns False when the entity write raises; when it
\* does not raise the result is True and the entity is stored, whatever
\* happens to the index calls; and when no call raises the reminder id is in
\* the user index and in the user+task index.
C20_StoreOutcome ==
    last.op = "store_reminder" =>
       LET rid == last.arg
       IN /\ Fails(last.faults, "save", 0) => ~last.ok
          /\ ~Fails(last.faults, "save", 0) =>
                /\ last.ok
                /\ rid \in DOMAIN reminders
                /\ reminders[rid].user_id = rid[2] /\ reminders[rid].task_id = rid[3]
          /\ last.faults = {} =>
                /\ InSeq(userIdx[rid[2]], rid)
                /\ InSeq(taskIdx[<<rid[2], rid[3]>>], rid)

C20_Witness ==
    /\ last.op = "store_reminder"
    /\ last.faults \cap IndexPoints(0) # {}
    /\ last.ok
    /\ last.arg \in DOMAIN reminders
    /\ ~InSeq(userIdx[last.arg[2]], last.arg)

\* The step of one operation of the manager on reminder_id.
StepOf(op) == ops' = ops + 1 /\ last'.op = op

InNoIndex(ui, ti, reminder_id) ==
    /\ \A u \in DOMAIN ui : ~InSeq(ui[u], reminder_id)
    /\ \A k \in DOMAIN ti : ~InSeq(ti[k], reminder_id)

\* C21: a delete that succeeds on a stored reminder leaves its id in neither
\* index and the entity absent; a delete of an absent reminder succeeds and
\* changes nothing that is stored.
C21_DeleteRemovesEverywhere ==
    [][StepOf("delete_reminder") =>
          LET rid == last'.arg
          IN /\ (rid \in DOMAIN reminders /\ last'.ok) =>
                   /\ rid \notin DOMAIN reminders'
                   /\ InNoIndex(userIdx', taskIdx', rid)
             /\ (rid \notin DOMAIN reminders /\ last'.faults = {}) =>
                   /\ last'.ok
                   /\ UNCHANGED <<reminders, userIdx, taskIdx, calls>>]_vars

\* What cancel_task_reminders hands to its caller of one run.
CancelTaskRemindersResult(db, user_id, task_id, F) ==
    CancelTaskReminders(db, user_id, task_id, F).ok

CancelFaults == SUBSET ({<<"iget", 0>>} \cup EntityPoints(1) \cup EntityPoints(11))

\* C22: the result of cancel_task_reminders tells how many cancellations
\* succeeded and how many failed: two runs that differ in either number have
\* different results.
C22_AggregateOutcome ==
    \A u \in Users, t \in Tasks, F1 \in CancelFaults, F2 \in CancelFaults :
        LET r1 == CancelTaskReminders(Db, u, t, F1)
            r2 == CancelTaskReminders(Db, u, t, F2)
        IN <<r1.count, r1.listed - r1.count>> # <<r2.count, r2.listed - r2.count>>
              => CancelTaskRemindersResult(Db, u, t, F1) # CancelTaskRemindersResult(Db, u, t, F2)

\* C23: mark_reminder_as_notified and cancel_reminder are idempotent: run on
\* a reminder whose flag is already set, they leave the stored reminder
\* exactly as it was.
C23_MarkIdempotent ==
    [][/\ (StepOf("mark_reminder_as_notified") /\ last'.arg \in DOMAIN reminders
              /\ Notified(reminders[last'.arg])) => reminders' = reminders
       /\ (StepOf("cancel_reminder") /\ last'.arg \in DOMAIN reminders
              /\ Cancelled(reminders[last'.arg])) => reminders' = reminders]_vars

\* C24: update_reminder on a reminder that is not stored returns its
\* not-found result (False) and writes nothing: no entity is created and no
\* index changes.
C24_UpdateAbsent ==
    [][(StepOf("update_reminder") /\ last'.arg[1] \notin DOMAIN reminders) =>
          /\ last'.ok = FALSE
          /\ UNCHANGED <<reminders, userIdx, taskIdx, calls>>]_vars

\* An update of an absent reminder has run, with no call raising, beside a
\* stored reminder.
C24_Witness ==
    /\ last.op = "update_reminder"
    /\ last.faults = {}
    /\ last.ok = FALSE
    /\ last.arg[1] \notin DOMAIN reminders
    /\ DOMAIN reminders # {}

\* C25: for a reminder that is not stored, is_reminder_notified and
\* is_reminder_cancelled both answer False.
C25_AbsentIsNeither ==
    (last.op \in {"is_reminder_notified", "is_reminder_cancelled"}
        /\ last.arg \notin DOMAIN reminders) => last.ok = FALSE

\* is_reminder_notified has answered for an absent reminder while another
\* reminder is stored, no call raising.
C25_Witness ==
    /\ last.op = "is_reminder_notified"
    /\ last.faults = {}
    /\ last.arg \notin DOMAIN reminders
    /\ DOMAIN reminders # {}
    /\ last.ok = FALSE

\* The stored entities of the ids of a list, in the order of the list.
StoredOf(ids) ==
    LET IsStored(x) == x \in DOMAIN reminders
        present == SelectSeq(ids, IsStored)
    IN [i \in 1..Len(present) |-> reminders[present[i]]]

\* C26: get_user_reminders and get_task_reminders return exactly the stored
\* entities of the ids in the index, in index order; an id whose entity is
\* absent is skipped.
C26_ListingResolvesIndex ==
    /\ last.op = "get_user_reminders" => last.ok = StoredOf(userIdx[last.arg])
    /\ last.op = "get_task_reminders" => last.ok = StoredOf(taskIdx[last.arg])

NoDuplicate(list) ==
    \A i \in 1..Len(list), j \in 1..Len(list) : i # j => list[i] # list[j]

\* The process whose write of an index key the step is: the list stored
\* after the step is the list that process had read, with its member appended
\* at the end (an insertion, of a member that list did not hold) or with its
\* member taken out (a removal), the others in the order they had.
WrittenBy(p, pc, key, before, after) ==
    LET c == calls[p]
        read == IF pc = "usave" THEN c.user_reminders ELSE c.task_reminders
    IN /\ c.pc = pc
       /\ key = (IF pc = "usave" THEN UserKey(c.rid) ELSE TaskKey(c.rid))
       /\ IF c.op = "store_reminder"
          THEN ~InSeq(read, c.rid) /\ after = Append(read, c.rid)
          ELSE InSeq(read, c.rid) /\ after = SeqRemove(read, c.rid)
       /\ (read = before /\ c.op = "store_reminder") => after = Append(before, c.rid)

\* C27: in every reachable state every index list is free of duplicates; a
\* list changes only by a write of store_reminder or delete_reminder, and a
\* store_reminder writes the list it read with the new member appended at
\* the end, and writes nothing when the member is already in it.
C27_IndexListsWellFormed ==
    /\ [](/\ \A u \in DOMAIN userIdx : NoDuplicate(userIdx[u])
          /\ \A k \in DOMAIN taskIdx : NoDuplicate(taskIdx[k]))
    /\ [][/\ \A u \in DOMAIN userIdx : userIdx'[u] # userIdx[u] =>
                \E p \in Procs : WrittenBy(p, "usave", u, userIdx[u], userIdx'[u])
          /\ \A k \in DOMAIN taskIdx : taskIdx'[k] # taskIdx[k] =>
                \E p \in Procs : WrittenBy(p, "tsave", k, taskIdx[k], taskIdx'[k])
          /\ \A p \in Procs :
                (calls[p].pc \in {"uget", "tget"} /\ calls'[p].pc \in {"usave", "tsave"}
                    /\ calls[p].op = "store_reminder")
                   => LET list == IF calls[p].pc = "uget" THEN userIdx[UserKey(calls[p].rid)]
                                  ELSE taskIdx[TaskKey(calls[p].rid)]
                      IN ~InSeq(list, calls[p].rid)]_vars

\* Two processes have each stored the same reminder and returned, no call
\* raising, and each index list of the reminder holds it once.
C27_Witness ==
    \E p \in Procs, q \in Procs :
        /\ p # q
        /\ calls[p].op = "store_reminder" /\ calls[p].pc = "done" /\ calls[p].ok
        /\ calls[q].op = "store_reminder" /\ calls[q].pc = "done" /\ calls[q].ok
        /\ calls[p].rid = calls[q].rid
        /\ userIdx[UserKey(calls[p].rid)] = <<calls[p].rid>>
        /\ taskIdx[TaskKey(calls[p].rid)] = <<calls[p].rid>>
        /\ calls[p].user_reminders = <<calls[p].rid>> /\ calls[q].user_reminders = <<calls[p].rid>>
        /\ faultsUsed = 0

\* The entity store_reminder writes for a reminder id.
StoredFor(reminder_id) ==
    DictUpdate(ReminderData(reminder_id[2], reminder_id[3], DueOf(reminder_id[3])),
               [updated_at |-> now])

\* C28: an insertion into the user index can be lost.  A store_reminder that
\* writes the list after another call has inserted a member since its read
\* writes a list without that member, and the entities stay as stored; so two
\* stores of different ids that both read the list before either wrote leave
\* one of the ids out of the index.
C28_StaleWriteLosesInsertion ==
    [][\A p \in Procs :
          LET c == calls[p]
              u == UserKey(c.rid)
          IN (c.op = "store_reminder" /\ c.pc = "usave" /\ calls'[p].pc = "tget") =>
                /\ \A x \in RIds :
                      (InSeq(userIdx[u], x) /\ ~InSeq(c.user_reminders, x) /\ x # c.rid)
                         => ~InSeq(userIdx'[u], x)
                /\ InSeq(userIdx'[u], c.rid)
                /\ reminders' = reminders]_vars

\* Two stores of different reminders of one user have both returned, no call
\* raising; both had read the same user list; both entities are stored as
\* written; the user index holds one of the two ids and not the other.
C28_Witness ==
    \E p \in Procs, q \in Procs :
        LET c == calls[p]
            d == calls[q]
            u == UserKey(c.rid)
        IN /\ p # q /\ faultsUsed = 0
           /\ c.op = "store_reminder" /\ c.pc = "done" /\ c.ok
           /\ d.op = "store_reminder" /\ d.pc = "done" /\ d.ok
           /\ c.rid # d.rid /\ UserKey(d.rid) = u
           /\ c.user_reminders = <<c.rid>> /\ d.user_reminders = <<d.rid>>
           /\ c.rid \in DOMAIN reminders /\ reminders[c.rid] = StoredFor(c.rid)
           /\ d.rid \in DOMAIN reminders /\ reminders[d.rid] = StoredFor(d.rid)
           /\ InSeq(userIdx[u], d.rid) /\ ~InSeq(userIdx[u], c.rid)

\* C29: updates of different index keys do not interfere: a store_reminder
\* or delete_reminder changes no list but those of its reminder's user key
\* and task key, and a call that raises on the user key does not keep the
\* update of the task key from taking effect.
C29_IndexKeysIndependent ==
    [][(StepOf("store_reminder") \/ StepOf("delete_reminder")) =>
          LET rid == last'.arg
              F == last'.faults
              taskCallsWork == ~Fails(F, "tget", 0) /\ ~Fails(F, "tsave", 0)
          IN /\ \A u \in DOMAIN userIdx : u # UserKey(rid) => userIdx'[u] = userIdx[u]
             /\ \A k \in DOMAIN taskIdx : k # TaskKey(rid) => taskIdx'[k] = taskIdx[k]
             /\ (last'.op = "store_reminder" /\ last'.ok /\ taskCallsWork)
                   => InSeq(taskIdx'[TaskKey(rid)], rid)
             /\ (last'.op = "delete_reminder" /\ rid \in DOMAIN reminders
                    /\ ~Fails(F, "get", 0) /\ taskCallsWork)
                   => ~InSeq(taskIdx'[TaskKey(rid)], rid)]_vars

\* C30: the map send_notification returns has an entry for every requested
\* channel: "failed" for a known channel whose handler raised,
\* "unknown_channel" for a name that is no channel, and the handler's own
\* outcome otherwise, whatever happened to the channels before it.
C30_OutcomePerChannel ==
    last.op = "send_notification" =>
        LET channels == EffectiveChannels(last.arg)
            results == last.ok
        IN /\ DOMAIN results = {channels[i] : i \in 1..Len(channels)}
           /\ \A i \in 1..Len(channels) :
                 (\A j \in (i + 1)..Len(channels) : channels[j] # channels[i]) =>
                    results[channels[i]].status =
                       (IF channels[i] \notin KnownChannels THEN "unknown_channel"
                        ELSE IF i \in last.faults THEN "failed"
                        ELSE HandlerStatus(channels[i]))

\* A call whose first channel raised, whose second is unknown and whose
\* third was delivered.
C30_Witness ==
    /\ last.op = "send_notification"
    /\ last.arg = {<<"email", "fax", "log">>}
    /\ last.faults = {1}
    /\ last.ok = [email |-> [status |-> "failed"], fax |-> [status |-> "unknown_channel"],
                  log |-> [status |-> "logged"]]

\* The operations that answer True or False.
BooleanOperations ==
    {"store_reminder", "update_reminder", "delete_reminder", "mark_reminder_as_notified",
     "is_reminder_notified", "cancel_reminder", "is_reminder_cancelled",
     "cancel_task_reminders", "process_completed_task", "reminder_handler"}

\* The ways process_completed_task returns.
ReturnPaths ==
    {"already completed", "no pattern", "invalid pattern", "recurrence ended",
     "no next occurrence", "create failed", "exception", "recurred"}

\* C31: whatever store, invoke or publish call of an operation raises, the
\* operation returns: True or False, or a list for a listing; for
\* process_completed_task every way out is one of its return statements.
C31_FailuresAreOutcomes ==
    /\ last.op \in BooleanOperations => last.ok \in BOOLEAN
    /\ last.op \in {"get_user_reminders", "get_task_reminders"} =>
          \E n \in 0..Len(last.ok) : DOMAIN last.ok = 1..n
    /\ last.op = "process_completed_task" => last.arg[1] \in ReturnPaths

\* process_completed_task has returned True for an event after an operation
\* in which a call raised.
C31_Witness ==
    /\ faultsUsed > 0
    /\ last.faults = {}
    /\ last.op = "process_completed_task"
    /\ last.ok = TRUE
    /\ ops = MaxOutcomeOps

\* C32: of the deliveries handled under one processing identity, interleaved
\* at their store calls, at most one creates a task and at most one publishes
\* an audit event.
C32_ConcurrentDeliveriesCreateOnce ==
    \A x \in pidsOf :
        /\ Cardinality({i \in 1..Len(createdTasks) : createdTasks[i].pid = x.pid}) <= 1
        /\ Cardinality({i \in 1..Len(auditEvents) : auditEvents[i].pid = x.pid}) <= 1

InvalidPatternHandled ==
    /\ last.op = "process_completed_task"
    /\ last.event.recurrence_pattern # ""
    /\ Lower(last.event.recurrence_pattern) \notin {"daily", "weekly", "monthly", "yearly"}

\* The invocation read a completed marker stored for its processing identity.
SawCompletedMarker == last.had /\ <<"get", 0>> \notin last.faults

\* C34 (as stated): for a pattern that is none of daily, weekly, monthly,
\* yearly, process_completed_task creates no task, publishes no event, leaves
\* the completed marker stored and returns failure.
C34_InvalidPatternFails ==
    InvalidPatternHandled =>
        /\ ~last.created /\ ~last.published
        /\ last.pid \in processed
        /\ last.ok = FALSE

\* C34 (amended): for such a pattern no task is created and no event is
\* published; an invocation that finds the completed marker of its processing
\* identity returns success at once, any other returns failure and leaves
\* the completed marker stored unless the store refused its write.
C34_InvalidPatternFailsUnlessSeen ==
    /\ \A i \in 1..Len(createdTasks) :
          Lower(createdTasks[i].event.recurrence_pattern) \in {"daily", "weekly", "monthly", "yearly"}
    /\ \A i \in 1..Len(auditEvents) :
          Lower(auditEvents[i].event.recurrence_pattern) \in {"daily", "weekly", "monthly", "yearly"}
    /\ InvalidPatternHandled =>
          /\ ~last.created /\ ~last.published
          /\ SawCompletedMarker => last.ok = TRUE
          /\ ~SawCompletedMarker =>
                /\ last.ok = FALSE
                /\ <<"save", 2>> \notin last.faults => last.pid \in processed

C34_Witness ==
    /\ InvalidPatternHandled
    /\ ~last.had /\ last.faults = {}
    /\ last.ok = FALSE /\ last.pid \in processed
    /\ createdTasks = <<>> /\ auditEvents = <<>>

\* The last step was process_completed_task for an event without a pattern.
NoPatternHandled ==
    last.op = "process_completed_task" /\ last.event.recurrence_pattern = ""

\* C35 (as stated): for a task without a recurrence pattern,
\* process_completed_task creates no task, publishes no event, leaves the
\* completed marker stored and returns success.
C35_NoPatternSucceeds ==
    NoPatternHandled =>
        /\ ~last.created /\ ~last.published
        /\ last.pid \in processed
        /\ last.ok = TRUE

\* C35 (amended): for a task without a recurrence pattern no task is created
\* and no event is published, the call returns success, and the completed
\* marker is stored afterwards unless the store refused its write.
C35_NoPatternSucceedsBestEffort ==
    /\ \A i \in 1..Len(createdTasks) : createdTasks[i].event.recurrence_pattern # ""
    /\ \A i \in 1..Len(auditEvents) : auditEvents[i].event.recurrence_pattern # ""
    /\ NoPatternHandled =>
          /\ ~last.created /\ ~last.published
          /\ last.ok = TRUE
          /\ <<"save", 2>> \notin last.faults => last.pid \in processed

C35_Witness ==
    /\ NoPatternHandled
    /\ ~last.had /\ last.faults = {}
    /\ last.ok = TRUE /\ last.pid \in processed /\ last.pid \notin started
    /\ createdTasks = <<>> /\ auditEvents = <<>>

\* C36: when create_task failed, process_completed_task has created nothing,
\* has returned failure and has left the completed marker stored, and the
\* next delivery with the same processing identity returns without trying
\* the creation again.
C36_FailedCreateIsFinal ==
    [][(last.op = "process_completed_task" /\ last.arg = <<"create failed">>) =>
          /\ ~last.created /\ last.ok = FALSE
          /\ last.pid \in processed
          /\ (StepOf("process_completed_task") /\ last'.pid = last.pid) =>
                /\ last'.arg = <<"already completed">>
                /\ createdTasks' = createdTasks]_vars

\* Every published audit event names a task the engine created under the
\* same processing identity.
PublishedOnlyForCreated ==
    \A i \in 1..Len(auditEvents) :
        \E j \in 1..Len(createdTasks) :
            /\ createdTasks[j].id = auditEvents[i].new_task_id
            /\ createdTasks[j].pid = auditEvents[i].pid

\* The last step was process_completed_task creating a task and failing to
\* publish the audit event.
PublishFailedAfterCreate ==
    /\ last.op = "process_completed_task"
    /\ last.created
    /\ <<"publish", 4>> \in last.faults

\* C37 (as stated): an audit event is published only for a created task, and
\* when the publish fails after the creation the completed marker is stored
\* and success is returned.
C37_PublishBestEffort ==
    /\ PublishedOnlyForCreated
    /\ PublishFailedAfterCreate =>
          ~last.published /\ last.ok = TRUE /\ last.pid \in processed

\* C37 (amended): an audit event is published only for a created task; when
\* the publish fails after the creation, success is returned, and the
\* completed marker is stored unless the store refused its write.
C37_PublishAndMarkerBestEffort ==
    /\ PublishedOnlyForCreated
    /\ PublishFailedAfterCreate =>
          /\ ~last.published /\ last.ok = TRUE
          /\ <<"save", 2>> \notin last.faults => last.pid \in processed

C37_Witness ==
    /\ PublishFailedAfterCreate
    /\ last.faults = {<<"publish", 4>>}
    /\ last.ok = TRUE /\ last.pid \in processed
    /\ Len(createdTasks) = 1 /\ auditEvents = <<>>

\* Delivery p runs the stretch from the started marker to the publish.
CreatesIn(p) ==
    /\ calls[p].pc = "start" /\ calls'[p].pc # "start"
    /\ createdTasks' # createdTasks \/ auditEvents' # auditEvents

\* Delivery p returns from mark_recurrence_processing_completed, that is
\* after one of the terminal decisions.
ReturnsDecided(p) ==
    calls[p].pc \in {"complete", "remove"} /\ calls'[p].pc = "done"

\* C38 (as stated): the started marker is in the store when a task has been
\* created or an event published, and when process_completed_task returns
\* after a terminal decision the completed marker is stored and the started
\* marker is not.
C38_StartedMarkerLifecycle ==
    [][\A p \in Procs :
          /\ CreatesIn(p) => calls[p].processing_id \in started'
          /\ ReturnsDecided(p) =>
                /\ calls[p].processing_id \in processed'
                /\ calls[p].processing_id \notin started']_vars

\* C38 (amended): the same, each marker call being best-effort: the started
\* marker is in the store at the creation unless its write was refused, the
\* completed marker is stored at the return unless its write was refused,
\* and the started marker is gone at the return unless the write of the
\* completed marker or the delete of the started one was refused.
C38_StartedMarkerLifecycleBestEffort ==
    [][\A p \in Procs :
          /\ CreatesIn(p) =>
                \/ <<"save", 1>> \in calls[p].faults
                \/ calls[p].processing_id \in started'
          /\ ReturnsDecided(p) =>
                /\ <<"save", 2>> \notin calls[p].faults => calls[p].processing_id \in processed'
                /\ calls[p].faults \cap {<<"save", 2>>, <<"del", 2>>} = {} =>
                      calls[p].processing_id \notin started']_vars

C38_Witness ==
    /\ faultsUsed = 0
    /\ \E p, q \in Procs :
          /\ calls[p].op = "process_completed_task" /\ calls[p].pc = "done" /\ calls[p].ok
          /\ calls[p].processing_id \in processed /\ calls[p].processing_id \notin started
          /\ \E i \in 1..Len(createdTasks) : createdTasks[i].pid = calls[p].processing_id
          /\ calls[q].op = "process_completed_task" /\ calls[q].pc = "complete"
          /\ calls[q].processing_id \in started /\ calls[q].processing_id \notin processed
          /\ \E i \in 1..Len(createdTasks) : createdTasks[i].pid = calls[q].processing_id

\* C39: a handle is in the live set of user u exactly when the backward map
\* sends it to u; so every handle is in at most one live set, a handle the
\* backward map does not hold is in none, and no empty set is kept.
C39_RegistryConsistent ==
    /\ \A u \in DOMAIN active_connections :
          /\ active_connections[u] # {}
          /\ \A w \in active_connections[u] :
                w \in DOMAIN user_connection_map /\ user_connection_map[w] = u
    /\ \A w \in DOMAIN user_connection_map :
          /\ user_connection_map[w] \in DOMAIN active_connections
          /\ w \in active_connections[user_connection_map[w]]
    /\ \A u, v \in DOMAIN active_connections :
          u # v => active_connections[u] \cap active_connections[v] = {}

\* The date months calendar months after dt, the day clamped to the last day
\* of the month reached, at the time of day of dt.
ClampedMonthsLater(dt, months) ==
    LET y == dt.y + ((dt.m - 1 + months) \div 12)
        m == ((dt.m - 1 + months) % 12) + 1
    IN [y |-> y, m |-> m,
        d |-> IF dt.d <= LastDayOf(y, m) THEN dt.d ELSE LastDayOf(y, m),
        time |-> dt.time]

\* C40 (as stated): for every valid date and every months >= 0, add_months
\* returns a valid date: month ((m - 1 + months) mod 12) + 1 of year
\* y + (m - 1 + months) div 12, on day min(d, days of that month), at the
\* same time of day.
C40_AddMonthsValid ==
    last.op = "add_months" =>
        /\ last.ok = {ClampedMonthsLater(last.arg[1], last.arg[2])}
        /\ \A r \in last.ok : ValidDate(r)

\* C40 (amended): the same whenever the year reached is at most 9999; for a
\* later year add_months returns nothing.
C40_AddMonthsValidUpToMaxYear ==
    last.op = "add_months" =>
        LET r == ClampedMonthsLater(last.arg[1], last.arg[2])
        IN IF r.y <= 9999
           THEN last.ok = {r} /\ ValidDate(r)
           ELSE last.ok = {}

C40_Witness ==
    /\ last.op = "add_months"
    /\ last.arg = <<Date(2024, 1, 31), 13>>
    /\ last.ok = {Date(2025, 2, 28)}

====
